---- MODULE Spec2Model ----
(***************************************************************************)
(* The analytics generation script of the community dashboard              *)
(* (src/scripts/generateAnalytics.ts): the rate-aware fetch client, the    *)
(* paginated fetchers, the composite-key join and the orchestrator, as a   *)
(* state machine of one run of the script against an upstream API that     *)
(* answers every request nondeterministically.                             *)
(*                                                                         *)
(* Strings that the code inspects character by character (logins, the      *)
(* rate-limit header) are sequences of one-character strings.  Times are   *)
(* integers counting days.                                                 *)
(***************************************************************************)
EXTENDS Integers, Sequences, FiniteSets, TLC

VARIABLES
  TOKEN,            \* process.env.GITHUB_TOKEN
  pc,               \* position of the single thread of control
  exitCode,         \* process exit status, NoExit while the process runs
  inflight,         \* endpoints of the HTTP requests sent and not yet answered
  endpoint,         \* fetchFromGitHub: its parameter
  res,              \* fetchFromGitHub: the Response (status line and headers)
  slept,            \* fetchFromGitHub: the pauses performed by this call, in ms
  json,             \* the value fetchFromGitHub returned to its caller
  error,            \* the exception in flight, None when there is none
  failed,           \* endpoints that answered with a non-success status since
                    \* the processing of the current repository began
  served,           \* number of pull requests and issues upstream has served
  page,             \* fetchers: let page
  acc,              \* fetchers: allRepos / allPrs / allIssues (the local list)
  mainRepos,        \* generateAnalytics: const mainRepos
  repoIdx,          \* generateAnalytics: position of `for (const repo of mainRepos)`
  pullRequests,     \* generateAnalytics: const pullRequests (of the current repo)
  prIdx,            \* generateAnalytics: position of `for (const pr of recentPRs)`
  allPullRequests,  \* generateAnalytics: const allPullRequests
  allIssues,        \* generateAnalytics: const allIssues
  allReviews,       \* generateAnalytics: const allReviews (insertion-ordered)
  repoMap,          \* generateAnalytics: const repoMap (insertion-ordered)
  visited,          \* names of the repositories whose processing has started
  snapshot,         \* content of public/analytics/analytics.json
  writes,           \* number of writeFileSync calls of this run
  user,             \* input of the isBotUser evaluation (SpecBot)
  result,           \* outcome of the isBotUser evaluation (SpecBot)
  upstream,         \* the list upstream holds behind a paginated endpoint, None
                    \* while upstream makes its pages up as they are requested
  reads             \* the Dates the aggregators have got from `new Date()`

vars == <<TOKEN, pc, exitCode, inflight, endpoint, res, slept, json, error, failed,
          served, page, acc, mainRepos, repoIdx, pullRequests, prIdx,
          allPullRequests, allIssues, allReviews, repoMap, visited, snapshot,
          writes, user, result, upstream, reads>>

(***************************************************************************)
(* Bounds of the model.  perPage, MainReposLimit and RecentPRsLimit stand  *)
(* for the source's 100, 15 and 30: the model runs the same loops on       *)
(* smaller pages and slices.  MaxLoginLen bounds the logins of SpecBot.    *)
(***************************************************************************)
perPage == 2
MainReposLimit == 2
RecentPRsLimit == 2
MaxLoginLen == 6

\* Upstream holds one repository more than the orchestrator selects, and
\* serves one item more than a page holds.
MaxRepos == MainReposLimit + 1
MaxServed == perPage + 1

(***************************************************************************)
(* Values of the JavaScript run time.                                      *)
(***************************************************************************)
undefined == <<"undefined">>
null == [null |-> TRUE]
None == [none |-> TRUE]
NoExit == 0 - 1      \* no exit status yet

Truthy(s) == s # undefined /\ s # <<>>

endsWith(s, suffix) ==
  /\ Len(s) >= Len(suffix)
  /\ SubSeq(s, Len(s) - Len(suffix) + 1, Len(s)) = suffix

BotSuffix == <<"[", "b", "o", "t", "]">>
UserType == <<"U", "s", "e", "r">>

(***************************************************************************)
(* isBotUser (UTILS).                                                      *)
(***************************************************************************)
isBotUserNoTypeCheck(u) ==
  IF u = null \/ ~Truthy(u.login) THEN TRUE
  ELSE endsWith(u.login, BotSuffix)

isBotUser(u) ==
  IF u = null \/ ~Truthy(u.login) THEN TRUE
  ELSE IF Truthy(u.type) /\ u.type # UserType THEN TRUE
  ELSE endsWith(u.login, BotSuffix)

(***************************************************************************)
(* smartSleep (UTILS): the pause chosen from the x-ratelimit-remaining     *)
(* header.  parseInt reads the leading decimal digits of the header.       *)
(***************************************************************************)
noHeader == <<"null">>

Digits == <<"0", "1", "2", "3", "4", "5", "6", "7", "8", "9">>

IsDigit(c) == \E d \in 1..Len(Digits) : Digits[d] = c

DigitVal(c) == (CHOOSE d \in 1..Len(Digits) : Digits[d] = c) - 1

RECURSIVE parseDigits(_, _)
parseDigits(s, n) ==
  IF s = <<>> \/ ~IsDigit(Head(s)) THEN n
  ELSE parseDigits(Tail(s), n * 10 + DigitVal(Head(s)))

parseInt(s) ==
  IF s = <<>> \/ ~IsDigit(Head(s)) THEN [nan |-> TRUE, val |-> 0]
  ELSE [nan |-> FALSE, val |-> parseDigits(s, 0)]

Gt(a, b) == ~a.nan /\ a.val > b

DefaultMs == 500

smartSleepGe(r, defaultMs) ==
  LET remaining == r.remaining IN
  IF remaining # noHeader /\ remaining # <<>> THEN
    LET remainingCount == parseInt(remaining) IN
    IF remainingCount.nan THEN 1000
    ELSE IF remainingCount.val >= 500 THEN 200
    ELSE IF remainingCount.val >= 100 THEN 400
    ELSE 1000
  ELSE defaultMs

smartSleep(r, defaultMs) ==
  LET remaining == r.remaining IN
  IF remaining # noHeader /\ remaining # <<>> THEN
    LET remainingCount == parseInt(remaining) IN
    IF Gt(remainingCount, 500) THEN 200
    ELSE IF Gt(remainingCount, 100) THEN 400
    ELSE 1000
  ELSE defaultMs

(***************************************************************************)
(* Time.  daysAgo(n) is n days before the current time.                    *)
(***************************************************************************)
now == 200

daysAgo(n) == now - n

LookbackDays == 180

since == daysAgo(LookbackDays)

(***************************************************************************)
(* The upstream API (the environment).  It holds at most MaxRepos          *)
(* repositories and serves at most MaxServed pull requests and issues in a *)
(* run; numbers are unique within a repository, pull requests and issues   *)
(* sharing one numbering space, and repeat across repositories.            *)
(***************************************************************************)
ORG == "CircuitVerse"

RepoNames == <<"alpha", "beta", "gamma", "delta", "epsilon", "zeta">>

Alice == [login |-> <<"a">>, type |-> UserType]
Dependabot == [login |-> <<"d", "[", "b", "o", "t", "]">>, type |-> <<"B", "o", "t">>]

Min(a, b) == IF a < b THEN a ELSE b
Max(a, b) == IF a > b THEN a ELSE b

SeqsUpTo(S, n) == UNION {[1..k -> S] : k \in 0..n}

RepoIndex(name) == CHOOSE i \in 1..Len(RepoNames) : RepoNames[i] = name

\* Position k of a repository's pull-request list / issue list -> its number.
PullNumber(name, k) == IF RepoIndex(name) % 2 = 1 THEN k ELSE MaxServed + k
IssueNumber(name, k) == IF RepoIndex(name) % 2 = 1 THEN MaxServed + k ELSE k

RepoFlags == {[archived |-> FALSE, disabled |-> FALSE],
              [archived |-> TRUE, disabled |-> FALSE],
              [archived |-> FALSE, disabled |-> TRUE]}

PullKinds == [user : {Alice, Dependabot}, updated_at : {since - 1, since}]

IssueKinds == {[pull_request |-> FALSE, user |-> Alice, updated_at |-> since],
               [pull_request |-> TRUE, user |-> Alice, updated_at |-> since],
               [pull_request |-> FALSE, user |-> Dependabot, updated_at |-> since],
               [pull_request |-> FALSE, user |-> Alice, updated_at |-> since - 1]}

ReviewOfAlice == [user |-> Alice, state |-> "APPROVED"]
ReviewOfBot == [user |-> Dependabot, state |-> "COMMENTED"]

ReviewBodies == {<<>>, <<ReviewOfAlice>>, <<ReviewOfBot>>, <<ReviewOfBot, ReviewOfAlice>>}

Headers == {noHeader, <<>>, <<"0">>, <<"1", "0", "0">>, <<"1", "0", "1">>,
            <<"5", "0", "0">>, <<"5", "0", "1">>, <<"x">>}

ErrorStatuses == {403, 500}

\* The JSON bodies upstream may answer a request for endpoint ep with.
ReposBodies(p) ==
  LET base == (p - 1) * perPage
      n == Max(0, Min(perPage, MaxRepos - base))
  IN {[k \in 1..Len(f) |->
         [name |-> RepoNames[base + k], owner |-> [login |-> ORG],
          archived |-> f[k].archived, disabled |-> f[k].disabled]] :
      f \in SeqsUpTo(RepoFlags, n)}

PullsBodies(name, p) ==
  LET base == (p - 1) * perPage
      n == Max(0, Min(perPage, MaxServed - served))
  IN IF upstream # None
     THEN {SubSeq(upstream.pulls, base + 1, Min(base + perPage, Len(upstream.pulls)))}
     ELSE
     {[k \in 1..Len(f) |->
         [number |-> PullNumber(name, base + k), user |-> f[k].user,
          updated_at |-> f[k].updated_at,
          html_url |-> <<name, "pull", PullNumber(name, base + k)>>]] :
      f \in SeqsUpTo(PullKinds, n)}

IssuesBodies(name, p) ==
  LET base == (p - 1) * perPage
      n == Max(0, Min(perPage, MaxServed - served))
  IN {[k \in 1..Len(f) |->
         [number |-> IssueNumber(name, base + k), user |-> f[k].user,
          updated_at |-> f[k].updated_at, pull_request |-> f[k].pull_request,
          html_url |-> <<name, "issues", IssueNumber(name, base + k)>>]] :
      f \in SeqsUpTo(IssueKinds, n)}

Bodies(ep) ==
  CASE ep[1] = "repos" -> ReposBodies(ep[3])
    [] ep[1] = "pulls" -> PullsBodies(ep[2], ep[3])
    [] ep[1] = "issues" -> IssuesBodies(ep[2], ep[3])
    [] ep[1] = "reviews" -> ReviewBodies

(***************************************************************************)
(* Insertion-ordered objects (Record<string, T>): a sequence of entries;   *)
(* assigning an existing key keeps its position.                           *)
(***************************************************************************)
Keys(m) == [i \in 1..Len(m) |-> m[i].key]

HasKey(m, k) == \E i \in 1..Len(m) : m[i].key = k

Get(m, k) == m[CHOOSE i \in 1..Len(m) : m[i].key = k].value

Put(m, k, v) ==
  IF HasKey(m, k)
  THEN [i \in 1..Len(m) |-> IF m[i].key = k THEN [key |-> k, value |-> v] ELSE m[i]]
  ELSE Append(m, [key |-> k, value |-> v])

\* `${repo.owner.login}/${repo.name}#${number}`
compositeKeyNoRepo(r, number) == <<r.owner.login, "*", number>>

compositeKey(r, number) == <<r.owner.login, r.name, number>>

RECURSIVE mapItems(_, _, _)
mapItems(m, r, items) ==
  IF items = <<>> THEN m
  ELSE mapItems(Put(m, compositeKey(r, Head(items).number), r.name), r, Tail(items))

(***************************************************************************)
(* Module top level: the credential check (CONFIG).                        *)
(***************************************************************************)
Idle == /\ inflight = <<>> /\ endpoint = None /\ res = None /\ slept = <<>>
        /\ json = None /\ error = None /\ failed = {} /\ served = 0
        /\ page = 1 /\ acc = <<>> /\ mainRepos = <<>> /\ repoIdx = 1
        /\ pullRequests = <<>> /\ prIdx = 1 /\ allPullRequests = <<>>
        /\ allIssues = <<>> /\ allReviews = <<>> /\ repoMap = <<>>
        /\ visited = <<>> /\ writes = 0
        /\ upstream = None /\ reads = <<>>

Tokens == {undefined, <<>>, <<"t">>}

OldSnapshot == [organization |-> ORG, repositories |-> 0, totalReviews |-> 0,
                totalIssues |-> 0]

Init ==
  /\ TOKEN \in Tokens
  /\ pc = "boot"
  /\ exitCode = NoExit
  /\ snapshot = OldSnapshot
  /\ user = null
  /\ result = None
  /\ Idle

fetchVars == <<inflight, endpoint, res, slept, json, error, failed, served>>
loopVars == <<page, acc, mainRepos, repoIdx, pullRequests, prIdx>>
dataVars == <<allPullRequests, allIssues, allReviews, repoMap, visited>>
outVars == <<snapshot, writes>>
botVars == <<user, result>>

BootNoCheck ==
  /\ pc = "boot"
  /\ pc' = "main"
  /\ UNCHANGED <<TOKEN, upstream, reads, exitCode, fetchVars, loopVars, dataVars, outVars, botVars>>

Boot ==
  /\ pc = "boot"
  /\ IF ~Truthy(TOKEN)
     THEN pc' = "done" /\ exitCode' = 0
     ELSE pc' = "main" /\ exitCode' = exitCode
  /\ UNCHANGED <<TOKEN, upstream, reads, fetchVars, loopVars, dataVars, outVars, botVars>>

(***************************************************************************)
(* fetchFromGitHub (GITHUB API CALLS).  `await fetch(url)` sends the       *)
(* request and suspends the caller until the response head arrives; the    *)
(* body is read afterwards by res.text() or res.json().                    *)
(***************************************************************************)
\* Where an exception thrown inside fetchFromGitHub lands, by caller.
CatchNoReviewTry(kind) ==
  IF kind = "repos" THEN "fatal" ELSE "repo_catch"

Catch(kind) ==
  CASE kind = "reviews" -> "reviews_catch"     \* try/catch of getReviews
    [] kind = "repos" -> "fatal"               \* outer try/catch of generateAnalytics
    [] OTHER -> "repo_catch"                   \* try/catch of the repository loop

\* Where fetchFromGitHub returns to, by caller.
Cont(kind) ==
  CASE kind = "repos" -> "repos_page"
    [] kind = "pulls" -> "pulls_page"
    [] kind = "issues" -> "issues_page"
    [] kind = "reviews" -> "reviews_filter"

\* The call up to and including `await fetch(url, ...)`.
fetchFromGitHub(ep) ==
  /\ endpoint' = ep
  /\ inflight' = Append(inflight, ep)
  /\ res' = None
  /\ slept' = <<>>
  /\ pc' = "fetch_wait"

\* Upstream answers with a success status.
RespondOk ==
  /\ pc = "fetch_wait"
  /\ inflight # <<>>
  /\ \E h \in Headers : res' = [ok |-> TRUE, status |-> 200, remaining |-> h]
  /\ inflight' = Tail(inflight)
  /\ pc' = "fetch_got"
  /\ UNCHANGED <<TOKEN, upstream, reads, exitCode, endpoint, slept, json, error, failed, served,
                 loopVars, dataVars, outVars, botVars>>

\* Upstream answers with a non-success status.
RespondNotOk ==
  /\ pc = "fetch_wait"
  /\ inflight # <<>>
  /\ \E st \in ErrorStatuses :
       res' = [ok |-> FALSE, status |-> st, remaining |-> <<"0">>]
  /\ inflight' = Tail(inflight)
  /\ failed' = failed \cup {Head(inflight)}
  /\ pc' = "fetch_got"
  /\ UNCHANGED <<TOKEN, upstream, reads, exitCode, endpoint, slept, json, error, served,
                 loopVars, dataVars, outVars, botVars>>

\* The request fails without a response: fetch rejects.
RespondReject ==
  /\ pc = "fetch_wait"
  /\ inflight # <<>>
  /\ inflight' = Tail(inflight)
  /\ error' = [name |-> "TypeError"]
  /\ res' = None
  /\ pc' = Catch(endpoint[1])
  /\ UNCHANGED <<TOKEN, upstream, reads, exitCode, endpoint, slept, json, failed, served,
                 loopVars, dataVars, outVars, botVars>>

\* if (!res.ok) { const text = await res.text(); throw new Error(...) }
FetchNotOkRetry ==
  /\ pc = "fetch_got"
  /\ ~res.ok
  /\ slept' = Append(slept, smartSleep(res, DefaultMs))
  /\ inflight' = Append(inflight, endpoint)
  /\ res' = None
  /\ pc' = "fetch_wait"
  /\ UNCHANGED <<TOKEN, upstream, reads, exitCode, endpoint, json, error, failed, served,
                 loopVars, dataVars, outVars, botVars>>

FetchNotOk ==
  /\ pc = "fetch_got"
  /\ ~res.ok
  /\ \E text \in {"API rate limit exceeded"} :
       error' = [name |-> "Error", status |-> res.status, text |-> text]
  /\ res' = None
  /\ pc' = Catch(endpoint[1])
  /\ UNCHANGED <<TOKEN, upstream, reads, exitCode, inflight, endpoint, slept, json, failed,
                 served, loopVars, dataVars, outVars, botVars>>

\* await smartSleep(res)
FetchSleep ==
  /\ pc = "fetch_got"
  /\ res.ok
  /\ slept' = Append(slept, smartSleep(res, DefaultMs))
  /\ pc' = "fetch_slept"
  /\ UNCHANGED <<TOKEN, upstream, reads, exitCode, inflight, endpoint, res, json, error, failed,
                 served, loopVars, dataVars, outVars, botVars>>

\* return res.json(): the body upstream sent, parsed.
FetchReturn ==
  /\ pc = "fetch_slept"
  /\ pc' = Cont(endpoint[1])
  /\ \E body \in Bodies(endpoint) :
       /\ json' = body
       /\ served' = IF endpoint[1] \in {"pulls", "issues"}
                    THEN served + Len(body) ELSE served
  /\ res' = None
  /\ slept' = <<>>
  /\ UNCHANGED <<TOKEN, upstream, reads, exitCode, inflight, endpoint, error, failed,
                 loopVars, dataVars, outVars, botVars>>

\* return res.json(): the body is not JSON and the promise rejects.
FetchJsonReject ==
  /\ pc = "fetch_slept"
  /\ pc' = Catch(endpoint[1])
  /\ error' = [name |-> "SyntaxError"]
  /\ res' = None
  /\ slept' = <<>>
  /\ UNCHANGED <<TOKEN, upstream, reads, exitCode, inflight, endpoint, json, failed, served,
                 loopVars, dataVars, outVars, botVars>>

(***************************************************************************)
(* getRepositories.                                                        *)
(***************************************************************************)
repo == mainRepos[repoIdx]

Active(r) == ~r.archived /\ ~r.disabled

slice(s, n) == SubSeq(s, 1, Min(n, Len(s)))

\* generateAnalytics is called; it calls getRepositories.
Main ==
  /\ pc = "main"
  /\ page' = 1
  /\ acc' = <<>>
  /\ pc' = "repos_loop"
  /\ UNCHANGED <<TOKEN, upstream, reads, exitCode, fetchVars, mainRepos, repoIdx, pullRequests,
                 prIdx, dataVars, outVars, botVars>>

GetRepositoriesFetchFirst ==
  /\ pc = "repos_loop"
  /\ fetchFromGitHub(<<"repos", ORG, 1>>)
  /\ UNCHANGED <<TOKEN, upstream, reads, exitCode, json, error, failed, served, loopVars,
                 dataVars, outVars, botVars>>

GetRepositoriesFetch ==
  /\ pc = "repos_loop"
  /\ fetchFromGitHub(<<"repos", ORG, page>>)
  /\ UNCHANGED <<TOKEN, upstream, reads, exitCode, json, error, failed, served, loopVars,
                 dataVars, outVars, botVars>>

\* The loop body after the fetch; on leaving the loop getRepositories returns
\* and generateAnalytics runs up to the repository loop.
GetRepositoriesPage ==
  /\ pc = "repos_page"
  /\ LET repos == json
         allRepos == acc \o repos
         more == Len(repos) # 0 /\ ~(Len(repos) < perPage)
         repositories == SelectSeq(allRepos, Active)
     IN IF more
        THEN /\ acc' = allRepos
             /\ page' = page + 1
             /\ pc' = "repos_loop"
             /\ UNCHANGED <<mainRepos, repoIdx, dataVars>>
        ELSE /\ mainRepos' = slice(repositories, MainReposLimit)
             /\ allPullRequests' = <<>>
             /\ allIssues' = <<>>
             /\ allReviews' = <<>>
             /\ repoMap' = <<>>
             /\ repoIdx' = 1
             /\ acc' = <<>>
             /\ page' = 1
             /\ pc' = "repo_start"
             /\ UNCHANGED visited
  /\ json' = None
  /\ UNCHANGED <<TOKEN, upstream, reads, exitCode, inflight, endpoint, res, slept, error, failed,
                 served, pullRequests, prIdx, outVars, botVars>>

(***************************************************************************)
(* The repository loop of generateAnalytics.                               *)
(***************************************************************************)
\* for (const repo of mainRepos): the next repository, or the end of the loop.
RepoStart ==
  /\ pc = "repo_start"
  /\ IF repoIdx <= Len(mainRepos)
     THEN /\ visited' = Append(visited, repo.name)
          /\ failed' = {}
          /\ pc' = "pulls_loop"
     ELSE /\ visited' = visited
          /\ failed' = failed
          /\ pc' = "calc"
  /\ page' = 1
  /\ acc' = <<>>
  /\ UNCHANGED <<TOKEN, upstream, reads, exitCode, inflight, endpoint, res, slept, json, error,
                 served, mainRepos, repoIdx, pullRequests, prIdx,
                 allPullRequests, allIssues, allReviews, repoMap, outVars, botVars>>

\* } catch (error) { console.error(...) }: on to the next repository.
RepoCatchAbort ==
  /\ pc = "repo_catch"
  /\ pc' = "fatal"
  /\ UNCHANGED <<TOKEN, upstream, reads, exitCode, fetchVars, loopVars, dataVars, outVars, botVars>>

RepoCatch ==
  /\ pc = "repo_catch"
  /\ error' = None
  /\ repoIdx' = repoIdx + 1
  /\ pullRequests' = <<>>
  /\ prIdx' = 1
  /\ page' = 1
  /\ acc' = <<>>
  /\ pc' = "repo_start"
  /\ UNCHANGED <<TOKEN, upstream, reads, exitCode, inflight, endpoint, res, slept, json, failed,
                 served, mainRepos, dataVars, outVars, botVars>>

(***************************************************************************)
(* getPullRequests, and what generateAnalytics does with its result.       *)
(***************************************************************************)
GetPullRequestsFetch ==
  /\ pc = "pulls_loop"
  /\ fetchFromGitHub(<<"pulls", repo.name, page>>)
  /\ UNCHANGED <<TOKEN, upstream, reads, exitCode, json, error, failed, served, loopVars,
                 dataVars, outVars, botVars>>

KeepPull(pr) == ~isBotUser(pr.user) /\ pr.updated_at >= since

SomeOldOrBot(prs) ==
  \E i \in 1..Len(prs) : prs[i].updated_at < since \/ isBotUser(prs[i].user)

SomeOld(prs) == \E i \in 1..Len(prs) : prs[i].updated_at < since

\* prs.length < perPage || prs.some(pr => new Date(pr.updated_at) < since)
PullsDoneShortOnly(prs) == Len(prs) < perPage

PullsDone(prs) == Len(prs) < perPage \/ SomeOld(prs)

GetPullRequestsPage ==
  /\ pc = "pulls_page"
  /\ LET prs == json
         allPrs == acc \o SelectSeq(prs, KeepPull)
         more == Len(prs) # 0 /\ ~PullsDone(prs)
     IN IF more
        THEN /\ acc' = allPrs
             /\ page' = page + 1
             /\ pc' = "pulls_loop"
             /\ UNCHANGED <<pullRequests, prIdx, allPullRequests, repoMap>>
        ELSE /\ pullRequests' = allPrs
             /\ allPullRequests' = allPullRequests \o allPrs
             /\ repoMap' = mapItems(repoMap, repo, allPrs)
             /\ prIdx' = 1
             /\ acc' = <<>>
             /\ page' = 1
             /\ pc' = "reviews_loop"
  /\ json' = None
  /\ UNCHANGED <<TOKEN, upstream, reads, exitCode, inflight, endpoint, res, slept, error, failed,
                 served, mainRepos, repoIdx, allIssues, allReviews, visited,
                 outVars, botVars>>

(***************************************************************************)
(* getReviews, called for each of the first pull requests of the           *)
(* repository.                                                             *)
(***************************************************************************)
recentPRsAll == pullRequests

\* const recentPRs = pullRequests.slice(0, 30)
recentPRs == slice(pullRequests, RecentPRsLimit)

reviewsEndpoint(i) == <<"reviews", repo.name, recentPRs[i].number>>

\* A fan-out of the review requests instead of one awaited call at a time.
GetReviewsFetchAll ==
  /\ pc = "reviews_loop"
  /\ prIdx <= Len(recentPRs)
  /\ endpoint' = reviewsEndpoint(prIdx)
  /\ inflight' = inflight \o [i \in 1..(Len(recentPRs) - prIdx + 1) |->
                                reviewsEndpoint(prIdx + i - 1)]
  /\ res' = None
  /\ slept' = <<>>
  /\ pc' = "fetch_wait"
  /\ UNCHANGED <<TOKEN, upstream, reads, exitCode, json, error, failed, served, loopVars,
                 dataVars, outVars, botVars>>

GetReviewsFetch ==
  /\ pc = "reviews_loop"
  /\ prIdx <= Len(recentPRs)
  /\ fetchFromGitHub(reviewsEndpoint(prIdx))
  /\ UNCHANGED <<TOKEN, upstream, reads, exitCode, json, error, failed, served, loopVars,
                 dataVars, outVars, botVars>>

KeepReview(review) == ~isBotUser(review.user)

\* What the loop body does with the list getReviews returned.
StoreReviews(reviews) ==
  /\ allReviews' = IF Len(reviews) > 0
                   THEN Put(allReviews, compositeKey(repo, recentPRs[prIdx].number), reviews)
                   ELSE allReviews
  /\ prIdx' = prIdx + 1
  /\ pc' = "reviews_loop"

\* getReviews returns the filtered list.
GetReviewsReturn ==
  /\ pc = "reviews_filter"
  /\ StoreReviews(SelectSeq(json, KeepReview))
  /\ json' = None
  /\ UNCHANGED <<TOKEN, upstream, reads, exitCode, inflight, endpoint, res, slept, error, failed,
                 served, page, acc, mainRepos, repoIdx, pullRequests,
                 allPullRequests, allIssues, repoMap, visited, outVars, botVars>>

\* catch (error) { console.warn(...); return []; }
GetReviewsCatch ==
  /\ pc = "reviews_catch"
  /\ StoreReviews(<<>>)
  /\ error' = None
  /\ UNCHANGED <<TOKEN, upstream, reads, exitCode, inflight, endpoint, res, slept, json, failed,
                 served, page, acc, mainRepos, repoIdx, pullRequests,
                 allPullRequests, allIssues, repoMap, visited, outVars, botVars>>

\* The review loop is over; generateAnalytics calls getIssues.
ReviewsDone ==
  /\ pc = "reviews_loop"
  /\ prIdx > Len(recentPRs)
  /\ page' = 1
  /\ acc' = <<>>
  /\ pc' = "issues_loop"
  /\ UNCHANGED <<TOKEN, upstream, reads, exitCode, fetchVars, mainRepos, repoIdx, pullRequests,
                 prIdx, dataVars, outVars, botVars>>

(***************************************************************************)
(* getIssues, and what generateAnalytics does with its result.             *)
(***************************************************************************)
GetIssuesFetch ==
  /\ pc = "issues_loop"
  /\ fetchFromGitHub(<<"issues", repo.name, page>>)
  /\ UNCHANGED <<TOKEN, upstream, reads, exitCode, json, error, failed, served, loopVars,
                 dataVars, outVars, botVars>>

KeepIssue(issue) ==
  ~issue.pull_request /\ ~isBotUser(issue.user) /\ issue.updated_at >= since

GetIssuesPage ==
  /\ pc = "issues_page"
  /\ LET issues == json
         all == acc \o SelectSeq(issues, KeepIssue)
         more == Len(issues) # 0 /\ ~(Len(issues) < perPage)
     IN IF more
        THEN /\ acc' = all
             /\ page' = page + 1
             /\ pc' = "issues_loop"
             /\ UNCHANGED <<repoIdx, pullRequests, prIdx, allIssues, repoMap>>
        ELSE /\ allIssues' = allIssues \o all
             /\ repoMap' = mapItems(repoMap, repo, all)
             /\ repoIdx' = repoIdx + 1
             /\ pullRequests' = <<>>
             /\ prIdx' = 1
             /\ acc' = <<>>
             /\ page' = 1
             /\ pc' = "repo_start"
  /\ json' = None
  /\ UNCHANGED <<TOKEN, upstream, reads, exitCode, inflight, endpoint, res, slept, error, failed,
                 served, mainRepos, allPullRequests, allReviews, visited,
                 outVars, botVars>>

(***************************************************************************)
(* The end of generateAnalytics: aggregation, the snapshot, the exit.      *)
(***************************************************************************)
\* calculateReviewMetrics, step 1: the pull request a review list resolves to.
\* A composite key splits at '#' and '/' into owner, repository name and number.
Resolves(prs, rmap, key) ==
  \E i \in 1..Len(prs) :
    prs[i].number = key[3] /\ HasKey(rmap, key) /\ Get(rmap, key) = key[2]

RECURSIVE totalReviews(_, _, _)
totalReviews(prs, reviewsByKey, rmap) ==
  IF reviewsByKey = <<>> THEN 0
  ELSE (IF Resolves(prs, rmap, Head(reviewsByKey).key)
        THEN Len(Head(reviewsByKey).value) ELSE 0)
       + totalReviews(prs, Tail(reviewsByKey), rmap)

analyticsData ==
  [organization |-> ORG,
   repositories |-> Len(mainRepos),
   totalReviews |-> totalReviews(allPullRequests, allReviews, repoMap),
   totalIssues |-> Len(allIssues)]

\* The metrics are calculated and fs.writeFileSync replaces the snapshot.
WriteSnapshot ==
  /\ pc = "calc"
  /\ snapshot' = analyticsData
  /\ writes' = writes + 1
  /\ pc' = "saved"
  /\ UNCHANGED <<TOKEN, upstream, reads, exitCode, fetchVars, loopVars, dataVars, botVars>>

\* generateAnalytics().then(() => process.exit(0))
ExitSuccess ==
  /\ pc = "saved"
  /\ exitCode' = 0
  /\ pc' = "done"
  /\ UNCHANGED <<TOKEN, upstream, reads, fetchVars, loopVars, dataVars, outVars, botVars>>

\* catch (error) { console.error(...); process.exit(1); }
FatalExitZero ==
  /\ pc = "fatal"
  /\ exitCode' = 0
  /\ pc' = "done"
  /\ UNCHANGED <<TOKEN, upstream, reads, fetchVars, loopVars, dataVars, outVars, botVars>>

Fatal ==
  /\ pc = "fatal"
  /\ exitCode' = 1
  /\ pc' = "done"
  /\ UNCHANGED <<TOKEN, upstream, reads, fetchVars, loopVars, dataVars, outVars, botVars>>

Next ==
  \/ Boot
  \/ Main
  \/ GetRepositoriesFetch
  \/ RespondOk
  \/ RespondNotOk
  \/ RespondReject
  \/ FetchNotOk
  \/ FetchSleep
  \/ FetchReturn
  \/ FetchJsonReject
  \/ GetRepositoriesPage
  \/ RepoStart
  \/ RepoCatch
  \/ GetPullRequestsFetch
  \/ GetPullRequestsPage
  \/ GetReviewsFetch
  \/ GetReviewsReturn
  \/ GetReviewsCatch
  \/ ReviewsDone
  \/ GetIssuesFetch
  \/ GetIssuesPage
  \/ WriteSnapshot
  \/ ExitSuccess
  \/ Fatal

Spec == Init /\ [][Next]_vars

\* The run with its scheduling: the script is one thread that takes its next
\* step whenever it has one, and every request sent is answered or fails (the
\* HTTP layer gives up on a request that is not answered).  Every step of Next
\* changes pc.
FairSpec == Spec /\ WF_pc(Next)

(***************************************************************************)
(* getPullRequests against an upstream that holds a fixed list of pull     *)
(* requests of one repository and serves it in pages of perPage.           *)
(***************************************************************************)
\* Two full pages: the fetcher asks for a third, empty one.
MaxUpstream == 2 * perPage

Listing(name, kinds) ==
  [k \in 1..Len(kinds) |->
     [number |-> PullNumber(name, k), user |-> kinds[k].user,
      updated_at |-> kinds[k].updated_at,
      html_url |-> <<name, "pull", PullNumber(name, k)>>]]

InitPulls ==
  /\ TOKEN = <<"t">>
  /\ pc = "pulls_loop"
  /\ exitCode = NoExit
  /\ snapshot = OldSnapshot
  /\ user = null
  /\ result = None
  /\ inflight = <<>> /\ endpoint = None /\ res = None /\ slept = <<>>
  /\ json = None /\ error = None /\ failed = {} /\ served = 0
  /\ page = 1 /\ acc = <<>> /\ repoIdx = 1
  /\ mainRepos = <<[name |-> "alpha", owner |-> [login |-> ORG],
                    archived |-> FALSE, disabled |-> FALSE]>>
  /\ visited = <<"alpha">>
  /\ pullRequests = <<>> /\ prIdx = 1 /\ allPullRequests = <<>>
  /\ allIssues = <<>> /\ allReviews = <<>> /\ repoMap = <<>> /\ writes = 0
  /\ reads = <<>>
  /\ \E kinds \in SeqsUpTo(PullKinds, MaxUpstream) :
       upstream = [pulls |-> Listing("alpha", kinds)]

NextPulls ==
  \/ GetPullRequestsFetch
  \/ RespondOk
  \/ RespondNotOk
  \/ RespondReject
  \/ FetchNotOk
  \/ FetchSleep
  \/ FetchReturn
  \/ FetchJsonReject
  \/ GetPullRequestsPage

SpecPulls == InitPulls /\ [][NextPulls]_vars

(***************************************************************************)
(* isBotUser applied to every user record of a bounded domain.             *)
(***************************************************************************)
LoginChars == {"[", "b", "o", "t", "]"}

Logins == {undefined} \cup SeqsUpTo(LoginChars, MaxLoginLen)

Types == {undefined, <<>>, UserType, <<"B", "o", "t">>, <<"O", "r", "g">>}

UserRecords == {null} \cup [login : Logins, type : Types]

InitBot ==
  /\ TOKEN = <<"t">>
  /\ pc = "isBotUser"
  /\ exitCode = NoExit
  /\ snapshot = None
  /\ user \in UserRecords
  /\ result = None
  /\ Idle

IsBotUserCall ==
  /\ pc = "isBotUser"
  /\ result = None
  /\ result' = [value |-> isBotUser(user)]
  /\ UNCHANGED <<TOKEN, upstream, reads, pc, exitCode, fetchVars, loopVars, dataVars, outVars, user>>

NextBot == IsBotUserCall

SpecBot == InitBot /\ [][NextBot]_vars

(***************************************************************************)
(* DATA PROCESSING.  Instants are integers in minutes, day d beginning at  *)
(* d * DayMinutes; a calendar date (formatDate) is the number of its day.  *)
(* A duration in hours is held as a quotient of integers, a value rounded  *)
(* to k decimals as the integer of its 10^k-th parts.                      *)
(***************************************************************************)
HourMinutes == 60
DayMinutes == 24 * HourMinutes

\* The time of day at which the run reads its clock.
TimeOfDay == 600

\* The Date that daysAgo yields for day d: that day, at the run's time of day.
instant(d) == d * DayMinutes + TimeOfDay

\* const now = new Date()
clock == instant(now)

formatDate(date) == date \div DayMinutes

\* Math.round(num / den), den > 0: the nearest integer, halves upwards.
round(num, den) == (2 * num + den) \div (2 * den)

RECURSIVE Sum(_)
Sum(s) == IF s = <<>> THEN 0 ELSE Head(s) + Sum(Tail(s))

\* Array.prototype.sort with comparator cmp: a stable sort.
sort(s, cmp(_, _)) ==
  LET before(j, i) == cmp(s[j], s[i]) < 0 \/ (cmp(s[j], s[i]) = 0 /\ j < i)
      rank(i) == Cardinality({j \in 1..Len(s) : before(j, i)}) + 1
  IN [r \in 1..Len(s) |-> s[CHOOSE i \in 1..Len(s) : rank(i) = r]]

\* Array.prototype.find: the first element passing the test, else undefined.
find(s, test(_)) ==
  IF \E i \in 1..Len(s) : test(s[i])
  THEN s[CHOOSE i \in 1..Len(s) : test(s[i]) /\ \A j \in 1..(i - 1) : ~test(s[j])]
  ELSE undefined

\* A property name that is an array index: the canonical decimal form of an
\* integer.  Own keys enumerate array indices first, in ascending order,
\* then the other names in insertion order.
isArrayIndex(name) ==
  /\ name # <<>>
  /\ \A i \in 1..Len(name) : IsDigit(name[i])
  /\ (Len(name) > 1 => name[1] # "0")

entries(obj) ==
  LET indexed == SelectSeq(obj, LAMBDA e : isArrayIndex(e.key))
      named == SelectSeq(obj, LAMBDA e : ~isArrayIndex(e.key))
  IN sort(indexed, LAMBDA a, b : parseDigits(a.key, 0) - parseDigits(b.key, 0)) \o named

(***************************************************************************)
(* calculateReviewMetrics.  WorklistLimit and TopReviewersLimit stand for  *)
(* the source's 20 and 10.                                                 *)
(***************************************************************************)
WorklistLimit == 2
TopReviewersLimit == 2
SeriesDays == 14

\* pullRequests.find(p => p.number === prNumber && repoMap[compositeKey] === repoName)
findPull(prs, rmap, key) ==
  find(prs, LAMBDA p : p.number = key[3] /\ HasKey(rmap, key) /\ Get(rmap, key) = key[2])

\* The reviews that pass `if (!pr) return`, in processing order, each with the
\* pull request its list resolved to.
RECURSIVE countedReviews(_, _, _)
countedReviews(prs, reviewsByKey, rmap) ==
  IF reviewsByKey = <<>> THEN <<>>
  ELSE LET e == Head(reviewsByKey)
           pr == findPull(prs, rmap, e.key)
           rest == countedReviews(prs, Tail(reviewsByKey), rmap)
       IN IF ~Resolves(prs, rmap, e.key) THEN rest
          ELSE [i \in 1..Len(e.value) |-> [review |-> e.value[i], pr |-> pr]] \o rest

hoursToReview(c) == c.review.submitted_at - c.pr.created_at

RECURSIVE reviewerStats(_, _)
reviewerStats(counted, stats) ==
  IF counted = <<>> THEN stats
  ELSE LET u == Head(counted).review.user
           init == IF HasKey(stats, u.login) THEN stats
                   ELSE Put(stats, u.login, [count |-> 0, avatar_url |-> u.avatar_url])
           old == Get(init, u.login)
       IN reviewerStats(Tail(counted),
                        Put(init, u.login, [old EXCEPT !.count = old.count + 1]))

topReviewers(counted) ==
  LET ranked == sort(entries(reviewerStats(counted, <<>>)),
                     LAMBDA a, b : b.value.count - a.value.count)
      top == slice(ranked, TopReviewersLimit)
  IN [i \in 1..Len(top) |->
        [username |-> top[i].key, reviewCount |-> top[i].value.count,
         avatarUrl |-> top[i].value.avatar_url]]

RECURSIVE dailyReviews(_, _)
dailyReviews(counted, daily) ==
  IF counted = <<>> THEN daily
  ELSE LET c == Head(counted)
           dateStr == formatDate(c.review.submitted_at)
           init == IF HasKey(daily, dateStr) THEN daily
                   ELSE Put(daily, dateStr, [reviews |-> 0, times |-> <<>>])
           old == Get(init, dateStr)
       IN dailyReviews(Tail(counted),
                       Put(init, dateStr,
                           [reviews |-> old.reviews + 1,
                            times |-> Append(old.times, hoursToReview(c))]))

\* The mean of durations given in minutes, in hours, as a quotient; 0 for none.
mean(times) ==
  IF Len(times) > 0 THEN [num |-> Sum(times), den |-> HourMinutes * Len(times)]
  ELSE [num |-> 0, den |-> 1]

dailyReviewData(counted) ==
  LET daily == dailyReviews(counted, <<>>)
  IN [k \in 1..SeriesDays |->
        LET dateStr == formatDate(instant(daysAgo(SeriesDays - k)))
            dayData == IF HasKey(daily, dateStr) THEN Get(daily, dateStr)
                       ELSE [reviews |-> 0, times |-> <<>>]
        IN [date |-> dateStr, reviews |-> dayData.reviews,
            avgTimeHours |-> mean(dayData.times)]]

countStateOrDismissed(counted, state) ==
  Cardinality({i \in 1..Len(counted) :
                 \/ counted[i].review.state = state
                 \/ state = "COMMENTED" /\ counted[i].review.state = "DISMISSED"})

countState(counted, state) ==
  Cardinality({i \in 1..Len(counted) : counted[i].review.state = state})

\* Object.keys(repoMap).find(key => parseInt(prNumberStr, 10) === number && repoMap[key])
findKey(rmap, number) ==
  find(Keys(rmap), LAMBDA key : key[3] = number /\ Get(rmap, key) # "")

\* compositeKey ? (allReviews[compositeKey] || []) : []
reviewsOf(reviewsByKey, key) ==
  IF key # undefined /\ HasKey(reviewsByKey, key) THEN Get(reviewsByKey, key) ELSE <<>>

\* compositeKey ? (repoMap[compositeKey] ?? 'unknown') : 'unknown'
repositoryOf(rmap, key) == IF key # undefined THEN Get(rmap, key) ELSE "unknown"

prReviews(pr, reviewsByKey, rmap) == reviewsOf(reviewsByKey, findKey(rmap, pr.number))

approvals(reviews) ==
  Cardinality({i \in 1..Len(reviews) : reviews[i].state = "APPROVED"})

changesRequested(reviews) ==
  Cardinality({i \in 1..Len(reviews) : reviews[i].state = "CHANGES_REQUESTED"})

\* Math.round(ageHours * 10) / 10, in tenths of an hour
ageHours(created_at) == round((clock - created_at) * 10, HourMinutes)

consideredNotDraft(pr) == ~pr.draft

\* if (pr.state !== 'open' || pr.merged_at || pr.draft) return
considered(pr) == ~(pr.state # "open" \/ pr.merged_at # null \/ pr.draft)

needsReviewSome(reviews) ==
  Len(reviews) = 0 \/ \E i \in 1..Len(reviews) : reviews[i].state = "COMMENTED"

needsReview(reviews) ==
  Len(reviews) = 0 \/ \A i \in 1..Len(reviews) : reviews[i].state = "COMMENTED"

readyToMergeAnyApproval(reviews) == approvals(reviews) > 0

readyToMerge(reviews) == approvals(reviews) > 0 /\ changesRequested(reviews) = 0

prsNeedingReview(prs, reviewsByKey, rmap) ==
  LET pushed == SelectSeq(prs, LAMBDA pr :
                  considered(pr) /\ needsReview(prReviews(pr, reviewsByKey, rmap)))
  IN [i \in 1..Len(pushed) |->
        [number |-> pushed[i].number, title |-> pushed[i].title,
         author |-> pushed[i].user.login, authorAvatar |-> pushed[i].user.avatar_url,
         createdAt |-> pushed[i].created_at, url |-> pushed[i].html_url,
         repository |-> repositoryOf(rmap, findKey(rmap, pushed[i].number)),
         ageHours |-> ageHours(pushed[i].created_at), isDraft |-> pushed[i].draft]]

prsReadyToMerge(prs, reviewsByKey, rmap) ==
  LET pushed == SelectSeq(prs, LAMBDA pr :
                  considered(pr) /\ readyToMerge(prReviews(pr, reviewsByKey, rmap)))
  IN [i \in 1..Len(pushed) |->
        [number |-> pushed[i].number, title |-> pushed[i].title,
         author |-> pushed[i].user.login, authorAvatar |-> pushed[i].user.avatar_url,
         createdAt |-> pushed[i].created_at, url |-> pushed[i].html_url,
         repository |-> repositoryOf(rmap, findKey(rmap, pushed[i].number)),
         approvals |-> approvals(prReviews(pushed[i], reviewsByKey, rmap)),
         ageHours |-> ageHours(pushed[i].created_at)]]

byAge(a, b) == a.ageHours - b.ageHours

\* stateDistribution.pending = prsNeedingReview.length
pendingAfterCap(needing) == Len(slice(needing, WorklistLimit))

pending(needing) == Len(needing)

worklistUnsorted(list, limit) == slice(list, limit)

worklist(list, limit) == slice(sort(list, byAge), limit)

calculateReviewMetrics(prs, reviewsByKey, rmap) ==
  LET counted == countedReviews(prs, reviewsByKey, rmap)
      needing == prsNeedingReview(prs, reviewsByKey, rmap)
      times == [i \in 1..Len(counted) |-> hoursToReview(counted[i])]
      last7 == Cardinality({i \in 1..Len(counted) :
                 counted[i].review.submitted_at >= instant(daysAgo(7))})
      last30 == Cardinality({i \in 1..Len(counted) :
                  counted[i].review.submitted_at >= instant(daysAgo(30))})
  IN [totalReviews |-> totalReviews(prs, reviewsByKey, rmap),
      reviewsLast7Days |-> last7,
      reviewsLast30Days |-> last30,
      averageReviewTimeHours |->
        IF Len(times) > 0 THEN round(Sum(times) * 100, HourMinutes * Len(times)) ELSE 0,
      topReviewers |-> topReviewers(counted),
      reviewVelocity |-> [daily |-> [num |-> last7, den |-> 7], weekly |-> last7,
                          monthly |-> last30],
      dailyReviewData |-> dailyReviewData(counted),
      reviewStateDistribution |->
        [approved |-> countState(counted, "APPROVED"),
         changesRequested |-> countState(counted, "CHANGES_REQUESTED"),
         commented |-> countState(counted, "COMMENTED"),
         pending |-> pending(needing)],
      prsNeedingReview |-> worklist(needing, WorklistLimit),
      prsReadyToMerge |-> worklist(prsReadyToMerge(prs, reviewsByKey, rmap), WorklistLimit)]

(***************************************************************************)
(* calculateIssueMetrics.  TriageLimit stands for the source's 50.         *)
(***************************************************************************)
TriageLimit == 2

Upper == <<"A", "B", "C", "D", "E", "F", "G", "H", "I", "J", "K", "L", "M",
           "N", "O", "P", "Q", "R", "S", "T", "U", "V", "W", "X", "Y", "Z">>
Lower == <<"a", "b", "c", "d", "e", "f", "g", "h", "i", "j", "k", "l", "m",
           "n", "o", "p", "q", "r", "s", "t", "u", "v", "w", "x", "y", "z">>

toLowerCase(s) ==
  [i \in 1..Len(s) |->
     IF \E k \in 1..Len(Upper) : Upper[k] = s[i]
     THEN Lower[CHOOSE k \in 1..Len(Upper) : Upper[k] = s[i]]
     ELSE s[i]]

\* ['bug', 'enhancement', 'feature', 'documentation', 'question', 'help wanted',
\*  'good first issue']
RecognizedLabels ==
  {<<"b", "u", "g">>,
   <<"e", "n", "h", "a", "n", "c", "e", "m", "e", "n", "t">>,
   <<"f", "e", "a", "t", "u", "r", "e">>,
   <<"d", "o", "c", "u", "m", "e", "n", "t", "a", "t", "i", "o", "n">>,
   <<"q", "u", "e", "s", "t", "i", "o", "n">>,
   <<"h", "e", "l", "p", " ", "w", "a", "n", "t", "e", "d">>,
   <<"g", "o", "o", "d", " ", "f", "i", "r", "s", "t", " ", "i", "s", "s", "u", "e">>}

recognizedExact(label) == label.name \in RecognizedLabels

recognized(label) == toLowerCase(label.name) \in RecognizedLabels

isPendingTriage(issue) ==
  Len(issue.labels) = 0 \/ ~(\E i \in 1..Len(issue.labels) : recognized(issue.labels[i]))

pendingTriage(issues) ==
  SelectSeq(SelectSeq(issues, LAMBDA issue : issue.state = "open"), isPendingTriage)

ageBucketClosed(ageInMinutes) ==
  IF ageInMinutes <= 24 * HourMinutes THEN "lessThan24h"
  ELSE IF ageInMinutes <= 24 * 7 * HourMinutes THEN "oneToSevenDays"
  ELSE IF ageInMinutes <= 24 * 30 * HourMinutes THEN "sevenToThirtyDays"
  ELSE "moreThanThirtyDays"

\* if (ageInHours < 24) ... else if (ageInHours < 24 * 7) ... else if (ageInHours < 24 * 30)
ageBucket(ageInMinutes) ==
  IF ageInMinutes < 24 * HourMinutes THEN "lessThan24h"
  ELSE IF ageInMinutes < 24 * 7 * HourMinutes THEN "oneToSevenDays"
  ELSE IF ageInMinutes < 24 * 30 * HourMinutes THEN "sevenToThirtyDays"
  ELSE "moreThanThirtyDays"

ageDistributionListed(pendingIssues) ==
  LET listed == SubSeq(pendingIssues, 1, Min(Len(pendingIssues), TriageLimit))
  IN [b \in {"lessThan24h", "oneToSevenDays", "sevenToThirtyDays", "moreThanThirtyDays"} |->
        Cardinality({i \in 1..Len(listed) :
                       ageBucket(clock - listed[i].created_at) = b})]

\* pendingTriageIssues.forEach(issue => { ... ageDistribution.<bucket>++ })
ageDistribution(pendingIssues) ==
  [b \in {"lessThan24h", "oneToSevenDays", "sevenToThirtyDays", "moreThanThirtyDays"} |->
     Cardinality({i \in 1..Len(pendingIssues) :
                    ageBucket(clock - pendingIssues[i].created_at) = b})]

issuesPendingTriage(pendingIssues, rmap) ==
  [i \in 1..Len(pendingIssues) |->
     LET issue == pendingIssues[i]
     IN [number |-> issue.number, title |-> issue.title, author |-> issue.user.login,
         authorAvatar |-> issue.user.avatar_url, createdAt |-> issue.created_at,
         url |-> issue.html_url,
         repository |-> repositoryOf(rmap, findKey(rmap, issue.number)),
         ageHours |-> ageHours(issue.created_at),
         labels |-> [k \in 1..Len(issue.labels) |-> issue.labels[k].name]]]

\* The loop body of the daily triage series for the Dates daysAgo(13), ...,
\* daysAgo(0) yielded.
dailyTriageDataOn(issues, dates) ==
  [k \in 1..Len(dates) |->
     LET dateStr == formatDate(dates[k])
         dayTriaged == Cardinality({i \in 1..Len(issues) :
                         formatDate(issues[i].updated_at) = dateStr
                         /\ Len(issues[i].labels) > 0})
         dayPending == Cardinality({i \in 1..Len(issues) :
                         formatDate(issues[i].created_at) = dateStr
                         /\ Len(issues[i].labels) = 0})
     IN [date |-> dateStr, triaged |-> dayTriaged, pending |-> dayPending,
         total |-> dayTriaged + dayPending]]

\* for (let i = 13; i >= 0; i--) { const date = daysAgo(i); ... }
dailyTriageData(issues) ==
  dailyTriageDataOn(issues, [k \in 1..SeriesDays |-> instant(daysAgo(SeriesDays - k))])

calculateIssueMetrics(issues, rmap) ==
  LET pendingIssues == pendingTriage(issues)
      recentlyTriaged == Cardinality({i \in 1..Len(issues) :
                           issues[i].updated_at >= instant(daysAgo(7))
                           /\ Len(issues[i].labels) > 0})
  IN [totalIssues |-> Len(issues),
      openIssues |-> Cardinality({i \in 1..Len(issues) : issues[i].state = "open"}),
      closedIssues |-> Cardinality({i \in 1..Len(issues) : issues[i].state = "closed"}),
      pendingTriage |-> Len(pendingIssues),
      recentlyTriaged |-> recentlyTriaged,
      triageVelocity |-> [daily |-> [num |-> recentlyTriaged, den |-> 7],
                          weekly |-> recentlyTriaged],
      ageDistribution |-> ageDistribution(pendingIssues),
      dailyTriageData |-> dailyTriageData(issues),
      issuesPendingTriage |-> worklist(issuesPendingTriage(pendingIssues, rmap), TriageLimit)]

(***************************************************************************)
(* The collections generateAnalytics hands to the aggregators.  A harvest  *)
(* is what the fetchers returned in a run: for each main repository, in    *)
(* order, its pull requests, the reviews getReviews returned for each of   *)
(* them, and its issues.  collect folds a harvest as the repository loop   *)
(* does.                                                                   *)
(***************************************************************************)
RECURSIVE collectReviews(_, _, _)
collectReviews(reviewsByKey, r, pulls) ==
  IF pulls = <<>> THEN reviewsByKey
  ELSE collectReviews(
         IF Len(Head(pulls).reviews) > 0
         THEN Put(reviewsByKey, compositeKey(r, Head(pulls).pr.number), Head(pulls).reviews)
         ELSE reviewsByKey,
         r, Tail(pulls))

RECURSIVE collect(_, _)
collect(harvest, data) ==
  IF harvest = <<>> THEN data
  ELSE LET h == Head(harvest)
           r == [name |-> h.name, owner |-> [login |-> ORG]]
           prs == [i \in 1..Len(h.pulls) |-> h.pulls[i].pr]
       IN collect(Tail(harvest),
            [allPullRequests |-> data.allPullRequests \o prs,
             allReviews |-> collectReviews(data.allReviews, r, slice(h.pulls, RecentPRsLimit)),
             allIssues |-> data.allIssues \o h.issues,
             repoMap |-> mapItems(mapItems(data.repoMap, r, prs), r, h.issues)])

Empty == [allPullRequests |-> <<>>, allReviews |-> <<>>, allIssues |-> <<>>,
          repoMap |-> <<>>]

\* Upstream items.  Numbers are positions in the repository's numbering
\* space, which its pull requests and issues share.
Author == [login |-> <<"a">>, avatar_url |-> "a.png", type |-> UserType]

Reviewer(login, avatar) == [login |-> login, avatar_url |-> avatar, type |-> UserType]

Review(u, state, submitted_at) == [user |-> u, state |-> state, submitted_at |-> submitted_at]

Pull(name, number, shape) ==
  [pr |-> [number |-> number, title |-> "pr", user |-> Author,
           created_at |-> shape.created_at, merged_at |-> shape.merged_at,
           state |-> shape.state, html_url |-> <<name, "pull", number>>,
           draft |-> shape.draft],
   reviews |-> shape.reviews]

Issue(name, number, shape) ==
  [number |-> number, title |-> "issue", user |-> Author,
   created_at |-> shape.created_at, updated_at |-> shape.updated_at,
   state |-> shape.state, html_url |-> <<name, "issues", number>>,
   labels |-> shape.labels]

\* Repository name with pull requests of the shapes ps followed by issues of
\* the shapes is.
Harvested(name, ps, is) ==
  [name |-> name,
   pulls |-> [k \in 1..Len(ps) |-> Pull(name, k, ps[k])],
   issues |-> [k \in 1..Len(is) |-> Issue(name, Len(ps) + k, is[k])]]

(***************************************************************************)
(* The harvests the aggregators are run on.                                *)
(***************************************************************************)
\* Derived bounds: one item more than a worklist holds, one reviewer more
\* than the ranking holds, and reviews enough for two of them to tie.
MaxListed == WorklistLimit + 1
MaxTriaged == TriageLimit + 1
MaxReviewers == TopReviewersLimit + 1
MaxReviews == TopReviewersLimit + 3

Bob == Reviewer(<<"b">>, "b.png")

ReviewStates == {"APPROVED", "CHANGES_REQUESTED", "COMMENTED", "DISMISSED"}

Merged == [date |-> clock - HourMinutes]

PlainShape(reviews) ==
  [state |-> "open", merged_at |-> null, draft |-> FALSE,
   created_at |-> clock - HourMinutes, reviews |-> reviews]

\* Every state, merge and draft marking; every review list of up to two states.
ClassShapes ==
  {PlainShape(rs) :
     rs \in SeqsUpTo({Review(Bob, s, clock - 30) : s \in ReviewStates}, 2)}
  \cup
  [state : {"open", "closed"}, merged_at : {null, Merged}, draft : BOOLEAN,
   created_at : {clock - HourMinutes},
   reviews : {<<>>, <<Review(Bob, "APPROVED", clock - 30)>>,
              <<Review(Bob, "COMMENTED", clock - 30)>>}]

\* Two repositories whose pull requests carry the same number.
ClassHarvest(s1, s2) ==
  <<Harvested("alpha", <<s1>>, <<>>), Harvested("beta", <<s2>>, <<>>)>>

\* Reviewers: one pull request reviewed by up to MaxReviewers logins, the
\* i-th review carrying the avatar seen at that moment.
ReviewerLogins == SubSeq(<<<<"z">>, <<"7">>, <<"a">>, <<"1", "0">>, <<"b">>>>, 1, MaxReviewers)

ReviewerHarvest(who) ==
  <<Harvested("alpha",
      <<PlainShape([i \in 1..Len(who) |->
           Review(Reviewer(ReviewerLogins[who[i]], i), "COMMENTED", clock - 30)])>>,
      <<>>)>>

\* Ages in minutes: 0 and 2 round to 0.0 h, 3 to 0.1 h, 60 is 1.0 h.
Ages == {0, 2, 3, 60}

AgedShapes ==
  [state : {"open"}, merged_at : {null}, draft : {FALSE},
   created_at : {clock - a : a \in Ages},
   reviews : {<<>>, <<Review(Bob, "APPROVED", clock)>>}]

\* A list split over two repositories, the first half in alpha.
Split(ps, is) ==
  LET hp == (Len(ps) + 1) \div 2
      hi == (Len(is) + 1) \div 2
  IN <<Harvested("alpha", SubSeq(ps, 1, hp), SubSeq(is, 1, hi)),
       Harvested("beta", SubSeq(ps, hp + 1, Len(ps)), SubSeq(is, hi + 1, Len(is)))>>

\* Reviews dated around the edges of the daily series, on pull requests
\* created before and after them.
DatedReviews ==
  {Review(Bob, s, t) :
     s \in {"APPROVED", "DISMISSED"},
     t \in {clock, clock - DayMinutes, daysAgo(SeriesDays - 1) * DayMinutes,
            daysAgo(SeriesDays - 1) * DayMinutes - 1}}

DatedShapes ==
  [state : {"open"}, merged_at : {null}, draft : {FALSE},
   created_at : {clock - 2 * DayMinutes, clock - 20 * DayMinutes},
   reviews : SeqsUpTo(DatedReviews, 2)]

Label(name) == [name |-> name, color |-> "ededed"]

Bug == Label(<<"b", "u", "g">>)
BugCapital == Label(<<"B", "u", "g">>)
Wontfix == Label(<<"w", "o", "n", "t", "f", "i", "x">>)
HelpWanted == Label(<<"H", "E", "L", "P", " ", "W", "A", "N", "T", "E", "D">>)
Bugs == Label(<<"b", "u", "g", "s">>)

LabelLists == {<<>>, <<Wontfix>>, <<Bug>>, <<BugCapital>>, <<Bug, Wontfix>>,
               <<Wontfix, HelpWanted>>, <<Bugs>>}

\* Ages at and next to the edges of the age buckets.
EdgeAges == {0, 24 * HourMinutes - 1, 24 * HourMinutes,
             24 * 7 * HourMinutes - 1, 24 * 7 * HourMinutes,
             24 * 30 * HourMinutes - 1, 24 * 30 * HourMinutes}

TriageShapes ==
  {[state |-> s, labels |-> ls, created_at |-> clock - a, updated_at |-> clock - a] :
     s \in {"open", "closed"}, ls \in LabelLists, a \in EdgeAges}

\* alpha's pull request and beta's first issue carry the same number.
TriageHarvest(i1, i2) ==
  <<Harvested("alpha", <<PlainShape(<<>>)>>, <<i1>>), Harvested("beta", <<>>, <<i2>>)>>

BacklogShapes ==
  {[state |-> "open", labels |-> <<>>, created_at |-> clock - a, updated_at |-> clock] :
     a \in Ages}

\* One repository with a merged pull request, an open one with an approval
\* and an open one without reviews, in any order, and two issues, one
\* labeled "bug" and one unlabeled and open.
MergedShapes ==
  [state : {"closed"}, merged_at : {Merged}, draft : {FALSE},
   created_at : {clock - HourMinutes},
   reviews : {<<>>, <<Review(Bob, "APPROVED", clock - 30)>>}]

ApprovedShapes ==
  {PlainShape(rs) :
     rs \in {<<Review(Bob, "APPROVED", clock - 30)>>,
             <<Review(Bob, "COMMENTED", clock - 40), Review(Bob, "APPROVED", clock - 30)>>}}

BugShapes ==
  [state : {"open", "closed"}, labels : {<<Bug>>},
   created_at : {clock - HourMinutes}, updated_at : {clock - HourMinutes}]

UnlabeledShape ==
  [state |-> "open", labels |-> <<>>,
   created_at |-> clock - HourMinutes, updated_at |-> clock - HourMinutes]

ScenarioHarvest(m, a, bug, f, g) ==
  LET ps == <<m, a, PlainShape(<<>>)>>
      is == <<bug, UnlabeledShape>>
  IN <<Harvested("alpha", [k \in 1..3 |-> ps[f[k]]], [k \in 1..2 |-> is[g[k]]])>>

\* alpha's issue and beta's pull request carry the same number.
IssueFirstHarvest(s) ==
  <<Harvested("alpha", <<>>, <<UnlabeledShape>>), Harvested("beta", <<s>>, <<>>)>>

\* Issues created and updated at the edges of the daily series: now, the
\* first minute of today, the last minute of yesterday, the first minute of
\* the first day of the series and the minute before it.
SeriesTimes ==
  {clock, now * DayMinutes, now * DayMinutes - 1,
   daysAgo(SeriesDays - 1) * DayMinutes, daysAgo(SeriesDays - 1) * DayMinutes - 1}

SeriesShapes ==
  {shape \in [state : {"open", "closed"}, labels : {<<>>, <<Wontfix>>},
              created_at : SeriesTimes, updated_at : SeriesTimes] :
     shape.updated_at >= shape.created_at}

\* The collections after the repository loop has gathered harvest.
Gathered(harvest) ==
  LET data == collect(harvest, Empty)
  IN /\ mainRepos = [i \in 1..Len(harvest) |->
                       [name |-> harvest[i].name, owner |-> [login |-> ORG]]]
     /\ visited = [i \in 1..Len(harvest) |-> harvest[i].name]
     /\ allPullRequests = data.allPullRequests
     /\ allReviews = data.allReviews
     /\ allIssues = data.allIssues
     /\ repoMap = data.repoMap

InitMetrics ==
  /\ TOKEN = <<"t">>
  /\ pc = "review_metrics"
  /\ exitCode = NoExit
  /\ snapshot = None
  /\ user = null
  /\ result = None
  /\ inflight = <<>> /\ endpoint = None /\ res = None /\ slept = <<>>
  /\ json = None /\ error = None /\ failed = {} /\ served = 0
  /\ page = 1 /\ acc = <<>> /\ repoIdx = 1 /\ pullRequests = <<>> /\ prIdx = 1
  /\ writes = 0
  /\ upstream = None /\ reads = <<>>
  /\ \/ \E s1, s2 \in ClassShapes : Gathered(ClassHarvest(s1, s2))
     \/ \E s1, s2 \in ClassShapes : Gathered(<<Harvested("alpha", <<s1, s2>>, <<>>)>>)
     \/ \E s1 \in ClassShapes : Gathered(<<Harvested("alpha", <<s1>>, <<>>)>>)
     \/ Gathered(<<>>)
     \/ \E who \in SeqsUpTo(1..MaxReviewers, MaxReviews) : Gathered(ReviewerHarvest(who))
     \/ \E ps \in SeqsUpTo(AgedShapes, MaxListed) : Gathered(Split(ps, <<>>))
     \/ \E s1, s2 \in DatedShapes : Gathered(ClassHarvest(s1, s2))
     \/ \E s1 \in DatedShapes : Gathered(<<Harvested("alpha", <<s1>>, <<>>)>>)
     \/ \E i1, i2 \in TriageShapes : Gathered(TriageHarvest(i1, i2))
     \/ \E is \in SeqsUpTo(BacklogShapes, MaxTriaged) : Gathered(Split(<<>>, is))
     \/ \E s \in ClassShapes : Gathered(IssueFirstHarvest(s))
     \/ \E i1, i2 \in SeriesShapes : Gathered(<<Harvested("alpha", <<>>, <<i1, i2>>)>>)
     \/ \E m \in MergedShapes, a \in ApprovedShapes, bug \in BugShapes,
           f \in Permutations(1..3), g \in Permutations(1..2) :
          Gathered(ScenarioHarvest(m, a, bug, f, g))

\* const reviewMetrics = calculateReviewMetrics(allPullRequests, allReviews, repoMap)
CalculateReviewMetrics ==
  /\ pc = "review_metrics"
  /\ result' = [reviewMetrics |-> calculateReviewMetrics(allPullRequests, allReviews, repoMap)]
  /\ pc' = "issue_metrics"
  /\ UNCHANGED <<TOKEN, upstream, reads, exitCode, fetchVars, loopVars, dataVars, outVars, user>>

\* const issueMetrics = calculateIssueMetrics(allIssues, repoMap)
CalculateIssueMetrics ==
  /\ pc = "issue_metrics"
  /\ result' = [reviewMetrics |-> result.reviewMetrics,
                issueMetrics |-> calculateIssueMetrics(allIssues, repoMap)]
  /\ pc' = "metrics_done"
  /\ UNCHANGED <<TOKEN, upstream, reads, exitCode, fetchVars, loopVars, dataVars, outVars, user>>

NextMetrics == CalculateReviewMetrics \/ CalculateIssueMetrics

SpecMetrics == InitMetrics /\ [][NextMetrics]_vars

(***************************************************************************)
(* The aggregators and the wall clock.  Neither aggregator takes the       *)
(* current time as a parameter: each `new Date()` reads the wall clock,    *)
(* calculateReviewMetrics at `now`, in daysAgo(7), in daysAgo(30) and in   *)
(* the daysAgo(i) of its daily series, calculateIssueMetrics at `now`, in  *)
(* daysAgo(7) and in the daysAgo(i) of its daily series.  The clock does   *)
(* not go back and advances by at most MaxDrift minutes during the run.    *)
(***************************************************************************)
MaxDrift == 1

\* function daysAgo(n) { const d = new Date(); d.setDate(d.getDate() - n); return d }
daysAgoAt(wall, n) == wall - n * DayMinutes

\* The days that the successive clock reads of an aggregator go back.
SeriesReads == [k \in 1..SeriesDays |-> SeriesDays - k]

ReviewReads == <<0, 7, 30>> \o SeriesReads

IssueReads == <<0, 7>> \o SeriesReads

\* The run begins at the model's time of day or in the last minute of the day.
StartTimes == {clock, (now + 1) * DayMinutes - 1}

\* The wall clock at the latest read.
WallAt(dates, back) == dates[Len(dates)] + back[Len(dates)] * DayMinutes

\* What the wall clock may show at the next read, after the reads rv of
\* calculateReviewMetrics and of calculateIssueMetrics.
Walls(rv) ==
  IF rv[1] = <<>> THEN StartTimes
  ELSE (IF rv[2] = <<>> THEN WallAt(rv[1], ReviewReads)
        ELSE WallAt(rv[2], IssueReads))..(rv[1][1] + MaxDrift)

InitClock ==
  /\ TOKEN = <<"t">>
  /\ pc = "review_metrics"
  /\ exitCode = NoExit
  /\ snapshot = None
  /\ user = null
  /\ result = None
  /\ inflight = <<>> /\ endpoint = None /\ res = None /\ slept = <<>>
  /\ json = None /\ error = None /\ failed = {} /\ served = 0
  /\ page = 1 /\ acc = <<>> /\ repoIdx = 1 /\ pullRequests = <<>> /\ prIdx = 1
  /\ writes = 0
  /\ upstream = None
  /\ reads = <<<<>>, <<>>>>
  /\ \E is \in SeqsUpTo(SeriesShapes, 1) : Gathered(<<Harvested("alpha", <<>>, is)>>)

\* A Date is made in calculateReviewMetrics; after the last one the function
\* returns.
ReviewMetricsDate ==
  /\ pc = "review_metrics"
  /\ Len(reads[1]) < Len(ReviewReads)
  /\ \E wall \in Walls(reads) :
       reads' = <<Append(reads[1], daysAgoAt(wall, ReviewReads[Len(reads[1]) + 1])),
                  reads[2]>>
  /\ pc' = IF Len(reads[1]) + 1 = Len(ReviewReads) THEN "issue_metrics" ELSE pc
  /\ UNCHANGED <<TOKEN, upstream, exitCode, fetchVars, loopVars, dataVars, outVars, botVars>>

\* A Date is made in calculateIssueMetrics.
IssueMetricsDate ==
  /\ pc = "issue_metrics"
  /\ Len(reads[2]) < Len(IssueReads)
  /\ \E wall \in Walls(reads) :
       reads' = <<reads[1],
                  Append(reads[2], daysAgoAt(wall, IssueReads[Len(reads[2]) + 1]))>>
  /\ UNCHANGED <<TOKEN, upstream, pc, exitCode, fetchVars, loopVars, dataVars, outVars, botVars>>

\* calculateIssueMetrics returns; of its result the daily series is kept.
IssueMetricsSeries ==
  /\ pc = "issue_metrics"
  /\ Len(reads[2]) = Len(IssueReads)
  /\ result' = [issueMetrics |->
                  [dailyTriageData |->
                     dailyTriageDataOn(allIssues, SubSeq(reads[2], 3, Len(IssueReads)))]]
  /\ pc' = "metrics_done"
  /\ UNCHANGED <<TOKEN, upstream, reads, exitCode, fetchVars, loopVars, dataVars, outVars, user>>

NextClock == ReviewMetricsDate \/ IssueMetricsDate \/ IssueMetricsSeries

SpecClock == InitClock /\ [][NextClock]_vars

(***************************************************************************)
(* Properties.                                                             *)
(***************************************************************************)
Last(s) == s[Len(s)]

IsPrefix(s, t) == Len(s) <= Len(t) /\ SubSeq(t, 1, Len(s)) = s

\* This step sends a request; Sent is its endpoint.
Sends == Len(inflight') > Len(inflight)
Sent == Last(inflight')

\* This step returns from fetchFromGitHub to its caller.
ReturnLocations == {"repos_page", "pulls_page", "issues_page", "reviews_filter"}
Returns == pc' \in ReturnLocations /\ pc \notin ReturnLocations

\* C1 (as stated): isBotUser(U) is true if and only if U's login is missing or
\* empty, or ends with "[bot]", or U's type is present and different from "User".
C1_AsStated ==
  result # None =>
    (result.value <=>
       \/ user = null
       \/ user.login = undefined
       \/ user.login = <<>>
       \/ endsWith(user.login, BotSuffix)
       \/ (user.type # undefined /\ user.type # UserType))

\* C1 (amended): isBotUser(U) is true if and only if U's login is missing or
\* empty, or ends with "[bot]", or U's type is present, not the empty string and
\* different from "User"; an empty type counts as no type.
C1_IsBotUser ==
  result # None =>
    (result.value <=>
       \/ user = null
       \/ user.login = undefined
       \/ user.login = <<>>
       \/ endsWith(user.login, BotSuffix)
       \/ (user.type # undefined /\ user.type # <<>> /\ user.type # UserType))

C1_Witness ==
  /\ result # None
  /\ user # null
  /\ user.login = <<"b", "o", "t">>
  /\ user.type = <<"B", "o", "t">>
  /\ result.value

\* The pause the rate-limit table prescribes for a header value.
TablePause(h) ==
  CASE h = noHeader -> 500
    [] h = <<"5", "0", "1">> -> 200
    [] h = <<"5", "0", "0">> -> 400
    [] h = <<"1", "0", "1">> -> 400
    [] h = <<"1", "0", "0">> -> 1000
    [] h = <<"0">> -> 1000

TableHeaders == {noHeader, <<"5", "0", "1">>, <<"5", "0", "0">>, <<"1", "0", "1">>,
                 <<"1", "0", "0">>, <<"0">>}

\* C2: a success response is followed by exactly one pause, of 200 ms for
\* remaining > 500, 400 ms for 100 < remaining <= 500, 1000 ms for
\* remaining <= 100 and 500 ms when the header is absent; and whenever
\* fetchFromGitHub returns a value to its caller, that one pause of that call
\* has been performed.
C2_OnePausePerSuccess ==
  [][/\ (pc = "fetch_got" /\ res.ok) =>
          /\ pc' = "fetch_slept"
          /\ slept = <<>>
          /\ Len(slept') = 1
          /\ res' = res
          /\ (res.remaining \in TableHeaders => slept'[1] = TablePause(res.remaining))
     /\ Returns =>
          /\ pc = "fetch_slept"
          /\ res.ok
          /\ Len(slept) = 1
          /\ (res.remaining \in TableHeaders => slept[1] = TablePause(res.remaining))]_vars

C2_Witness ==
  /\ pc = "fetch_slept"
  /\ res.remaining = <<"5", "0", "0">>
  /\ slept = <<400>>

AllNew(prs) == \A i \in 1..Len(prs) : prs[i].updated_at >= since

\* C3: after a page of pull requests, the next page is requested if and only if
\* the page is full and every item on it has updated_at >= cutoff; a page with
\* an item older than the cutoff ends the fetch for the repository even when it
\* is full.  Pull-request pages are requested only by that loop, for its page.
C3_PullsEarlyStop ==
  [][/\ pc = "pulls_page" =>
          /\ (pc' = "pulls_loop" <=> (Len(json) = perPage /\ AllNew(json)))
          /\ (pc' = "pulls_loop" => page' = page + 1 /\ repoIdx' = repoIdx)
          /\ (pc' # "pulls_loop" => pc' = "reviews_loop")
     /\ (Sends /\ Sent[1] = "pulls") =>
          pc = "pulls_loop" /\ Sent = <<"pulls", repo.name, page>>]_vars

C3_Witness ==
  /\ pc = "pulls_page"
  /\ Len(json) = perPage
  /\ ~AllNew(json)
  /\ page = 1

\* This step throws out of fetchFromGitHub.
Throws == error = None /\ error' # None

\* C4: an exception while the reviews of one pull request are fetched is caught
\* by getReviews, which returns the empty list: the review map and the other
\* collections stay as they are, no error is left, the process keeps running,
\* and the loop goes on with the next pull request of the same repository.
C4_ReviewFailureContained ==
  [][/\ (Throws /\ endpoint[1] = "reviews") => pc' = "reviews_catch"
     /\ pc = "reviews_catch" =>
          /\ pc' = "reviews_loop"
          /\ prIdx' = prIdx + 1
          /\ repoIdx' = repoIdx
          /\ pullRequests' = pullRequests
          /\ allReviews' = allReviews
          /\ error' = None
          /\ exitCode' = NoExit]_vars

C4_Witness ==
  /\ pc = "fetch_wait"
  /\ endpoint[1] = "issues"
  /\ endpoint = <<"issues", repo.name, 1>>
  /\ Len(recentPRs) = 2
  /\ <<"reviews", repo.name, recentPRs[1].number>> \in failed
  /\ HasKey(allReviews, compositeKey(repo, recentPRs[2].number))

Names(rs) == [i \in 1..Len(rs) |-> rs[i].name]

\* C5: an exception while the pull requests or issues of a repository are
\* fetched is caught by the repository loop: the loop goes on with the next
\* repository, the accumulated collections only grow, only a failed repository
\* listing is fatal, and a run that gets past the listing visits every selected
\* repository in order and writes exactly one snapshot of what it accumulated.
C5_RepositoryFailureContained ==
  [][/\ (Throws /\ endpoint[1] \in {"pulls", "issues"}) => pc' = "repo_catch"
     /\ pc = "repo_catch" =>
          /\ pc' = "repo_start"
          /\ repoIdx' = repoIdx + 1
          /\ error' = None
          /\ exitCode' = NoExit
     /\ IsPrefix(allPullRequests, allPullRequests')
     /\ IsPrefix(allIssues, allIssues')
     /\ IsPrefix(repoMap, repoMap')
     /\ IsPrefix(allReviews, allReviews')
     /\ IsPrefix(visited, visited')
     /\ pc' = "fatal" => endpoint[1] = "repos"
     /\ pc' \in {"calc", "saved"} => visited' = Names(mainRepos') /\ exitCode' = NoExit
     /\ pc' = "saved" =>
          /\ writes' = 1
          /\ snapshot'.repositories = Len(mainRepos)
          /\ snapshot'.totalIssues = Len(allIssues)
          /\ snapshot'.totalReviews = totalReviews(allPullRequests, allReviews, repoMap)
     /\ writes' <= 1]_vars

C5_Witness ==
  /\ pc = "repo_catch"
  /\ repoIdx = 1
  /\ Len(mainRepos) = 2
  /\ endpoint[1] = "issues"
  /\ allPullRequests # <<>>
  /\ allReviews # <<>>

\* C6: with the credential absent the process exits with status 0 at the
\* credential check: no request is ever sent and the snapshot is not written.
C6_NoCredentialCleanExit ==
  TOKEN = undefined =>
    /\ pc \in {"boot", "done"}
    /\ (pc = "done" => exitCode = 0)
    /\ (pc = "boot" => exitCode = NoExit)
    /\ inflight = <<>>
    /\ endpoint = None
    /\ writes = 0
    /\ snapshot = OldSnapshot

C6_Witness ==
  /\ TOKEN = undefined
  /\ pc = "done"
  /\ exitCode = 0

CatchLocations == {"reviews_catch", "repo_catch", "fatal"}

\* C8: on a non-success status fetchFromGitHub throws an error that carries the
\* status and the body text, without any pause and without sending a request;
\* and no request is ever sent to an endpoint that answered with a non-success
\* status earlier in the run: not while the same repository is processed, and
\* not later, since every request names the repository being processed and no
\* repository is processed twice.
C8_NoRetryAfterNotOk ==
  [][/\ (pc = "fetch_got" /\ ~res.ok) =>
          /\ error' = [name |-> "Error", status |-> res.status,
                       text |-> "API rate limit exceeded"]
          /\ res.status \in ErrorStatuses
          /\ slept = <<>>
          /\ slept' = <<>>
          /\ inflight' = inflight
          /\ pc' \in CatchLocations
     /\ Sends => Sent \notin failed
     /\ (Sends /\ Sent[1] = "repos") => visited = <<>>
     /\ (Sends /\ Sent[1] # "repos") => visited # <<>> /\ Sent[2] = Last(visited)
     /\ \A i, j \in 1..Len(visited') : visited'[i] = visited'[j] => i = j
     /\ failed' # failed =>
          \/ failed' = failed \cup {endpoint} /\ pc' = "fetch_got" /\ ~res'.ok
          \/ failed' = {} /\ Len(visited') = Len(visited) + 1]_vars

C8_Witness ==
  /\ pc = "fetch_wait"
  /\ endpoint[1] = "reviews"
  /\ prIdx = 2
  /\ <<"reviews", repo.name, recentPRs[1].number>> \in failed

\* C9: at most one request is outstanding at any time, and while one is
\* outstanding the thread waits for it: the previous call has returned or
\* thrown, with its pause done, before the next request is sent.
C9_OneRequestAtATime ==
  /\ Len(inflight) <= 1
  /\ inflight # <<>> =>
       pc = "fetch_wait" /\ inflight = <<endpoint>> /\ res = None /\ slept = <<>>
  /\ pc = "fetch_wait" => inflight # <<>>

C9_Witness ==
  /\ Len(inflight) = 1
  /\ endpoint[1] = "reviews"
  /\ prIdx = 2
  /\ repoIdx = 2

Items == allPullRequests \o allIssues

\* The pull requests and issues collected from repository `name` with `number`.
Matches(name, number) ==
  {i \in 1..Len(Items) : Items[i].html_url[1] = name /\ Items[i].number = number}

\* C10: the repository map is empty until a repository has been processed, and
\* every key owner/repo#number in it belongs to exactly one collected pull
\* request or issue of repository repo, is mapped to that repository's name, and
\* occurs once; every collected pull request and issue has its key in the map.
C10_RepoMapEntries ==
  /\ visited = <<>> => repoMap = <<>>
  /\ \A i \in 1..Len(repoMap) :
       /\ repoMap[i].key[1] = ORG
       /\ repoMap[i].key[2] \in {visited[v] : v \in 1..Len(visited)}
       /\ repoMap[i].value = repoMap[i].key[2]
       /\ Cardinality(Matches(repoMap[i].key[2], repoMap[i].key[3])) = 1
       /\ \A j \in 1..Len(repoMap) : repoMap[j].key = repoMap[i].key => j = i
  /\ \A i \in 1..Len(Items) :
       HasKey(repoMap, <<ORG, Items[i].html_url[1], Items[i].number>>)

C10_Witness ==
  /\ pc = "done"
  /\ \E i, j \in 1..Len(repoMap) :
       /\ repoMap[i].key[3] = repoMap[j].key[3]
       /\ repoMap[i].key[2] # repoMap[j].key[2]
  /\ \E i \in 1..Len(allIssues) :
       HasKey(repoMap, <<ORG, allIssues[i].html_url[1], allIssues[i].number>>)

(***************************************************************************)
(* Properties of the aggregators, under SpecMetrics.                       *)
(***************************************************************************)
ReviewMetricsDone == pc \in {"issue_metrics", "metrics_done"}
IssueMetricsDone == pc = "metrics_done"

\* The repository an item was fetched from: the one its URL names.
FetchedFrom(url) == url[1]

\* C11: every entry of prsNeedingReview, prsReadyToMerge and
\* issuesPendingTriage names, as its repository, the repository its pull
\* request or issue was fetched from, also when another repository of the run
\* holds a pull request or issue with the same number.
C11_RepositoryOfEntry ==
  /\ ReviewMetricsDone =>
       /\ \A i \in 1..Len(result.reviewMetrics.prsNeedingReview) :
            LET e == result.reviewMetrics.prsNeedingReview[i]
            IN e.repository = FetchedFrom(e.url)
       /\ \A i \in 1..Len(result.reviewMetrics.prsReadyToMerge) :
            LET e == result.reviewMetrics.prsReadyToMerge[i]
            IN e.repository = FetchedFrom(e.url)
  /\ IssueMetricsDone =>
       \A i \in 1..Len(result.issueMetrics.issuesPendingTriage) :
         LET e == result.issueMetrics.issuesPendingTriage[i]
         IN e.repository = FetchedFrom(e.url)

\* The review list the aggregator resolved for a pull request.
Resolved(pr) == prReviews(pr, allReviews, repoMap)

Eligible(pr) == pr.state = "open" /\ pr.merged_at = null /\ ~pr.draft

AllCommented(rs) == \A k \in 1..Len(rs) : rs[k].state = "COMMENTED"

HasState(rs, state) == \E k \in 1..Len(rs) : rs[k].state = state

ShouldNeedReview(pr) ==
  Eligible(pr) /\ (Resolved(pr) = <<>> \/ AllCommented(Resolved(pr)))

ShouldBeReady(pr) ==
  Eligible(pr) /\ HasState(Resolved(pr), "APPROVED")
  /\ ~HasState(Resolved(pr), "CHANGES_REQUESTED")

\* The entry of a pull request or issue in a worklist is the one with its URL.
Listed(list, item) == \E k \in 1..Len(list) : list[k].url = item.html_url

\* C12: an open, unmerged, non-draft pull request is in prsNeedingReview
\* exactly when its resolved review list is empty or all COMMENTED, and in
\* prsReadyToMerge exactly when the list has an APPROVED and no
\* CHANGES_REQUESTED review (a classified pull request is missing from the
\* output only when the worklist is full); a closed, merged or draft pull
\* request is in neither worklist.
C12_Classification ==
  ReviewMetricsDone =>
    \A i \in 1..Len(allPullRequests) :
      LET pr == allPullRequests[i]
          needing == result.reviewMetrics.prsNeedingReview
          ready == result.reviewMetrics.prsReadyToMerge
      IN /\ Listed(needing, pr) => ShouldNeedReview(pr)
         /\ ShouldNeedReview(pr) => Listed(needing, pr) \/ Len(needing) = WorklistLimit
         /\ Listed(ready, pr) => ShouldBeReady(pr)
         /\ ShouldBeReady(pr) => Listed(ready, pr) \/ Len(ready) = WorklistLimit
         /\ ~Eligible(pr) => ~Listed(needing, pr) /\ ~Listed(ready, pr)

C12_Witness ==
  /\ ReviewMetricsDone
  /\ Len(allPullRequests) = 2
  /\ Len(Resolved(allPullRequests[1])) = 2
  /\ AllCommented(Resolved(allPullRequests[1]))
  /\ Listed(result.reviewMetrics.prsNeedingReview, allPullRequests[1])
  /\ Len(Resolved(allPullRequests[2])) = 2
  /\ HasState(Resolved(allPullRequests[2]), "COMMENTED")
  /\ Listed(result.reviewMetrics.prsReadyToMerge, allPullRequests[2])
  /\ ~Listed(result.reviewMetrics.prsNeedingReview, allPullRequests[2])

\* C13: no pull request appears both in prsNeedingReview and in
\* prsReadyToMerge.
C13_NoConflict ==
  ReviewMetricsDone =>
    \A i \in 1..Len(result.reviewMetrics.prsNeedingReview) :
      \A j \in 1..Len(result.reviewMetrics.prsReadyToMerge) :
        result.reviewMetrics.prsNeedingReview[i].url
          # result.reviewMetrics.prsReadyToMerge[j].url

C13_Witness ==
  /\ ReviewMetricsDone
  /\ Len(result.reviewMetrics.prsNeedingReview) = 1
  /\ Len(result.reviewMetrics.prsReadyToMerge) = 1
  /\ \E i \in 1..Len(allPullRequests) :
       /\ HasState(Resolved(allPullRequests[i]), "APPROVED")
       /\ HasState(Resolved(allPullRequests[i]), "COMMENTED")

\* C14: reviewStateDistribution.pending is the number of pull requests
\* classified as needing review, counted before the worklist is cut to its
\* limit, whatever the number of review events.
C14_PendingCountsPulls ==
  ReviewMetricsDone =>
    result.reviewMetrics.reviewStateDistribution.pending
      = Cardinality({i \in 1..Len(allPullRequests) : ShouldNeedReview(allPullRequests[i])})

C14_Witness ==
  /\ ReviewMetricsDone
  /\ result.reviewMetrics.reviewStateDistribution.pending = WorklistLimit + 1
  /\ Len(result.reviewMetrics.prsNeedingReview) = WorklistLimit
  /\ result.reviewMetrics.totalReviews = 0

\* k tenths of an hour is the age of an item created at instant t, rounded
\* to one decimal (halves upwards).
IsAgeOf(k, t) ==
  /\ 2 * HourMinutes * k - HourMinutes <= 20 * (clock - t)
  /\ 20 * (clock - t) < 2 * HourMinutes * k + HourMinutes

\* The rounded age of an item created at t is at least k tenths of an hour.
AgeAtLeast(t, k) == 20 * (clock - t) + HourMinutes >= 2 * HourMinutes * k

CaseFolds(a, b) ==
  a = b \/ \E k \in 1..Len(Upper) : {a, b} = {Upper[k], Lower[k]}

SameName(a, b) == Len(a) = Len(b) /\ \A k \in 1..Len(a) : CaseFolds(a[k], b[k])

ShouldTriage(issue) ==
  /\ issue.state = "open"
  /\ \A k \in 1..Len(issue.labels) :
       \A name \in RecognizedLabels : ~SameName(issue.labels[k].name, name)

\* list holds, in ascending order of age and up to limit, the items of
\* source that qualify.
IsWorklist(list, limit, source, Qualifies(_)) ==
  LET N == Cardinality({i \in 1..Len(source) : Qualifies(source[i])})
  IN /\ Len(list) = Min(N, limit)
     /\ \A k \in 1..Len(list) : IsAgeOf(list[k].ageHours, list[k].createdAt)
     /\ \A k \in 1..Len(list) : \E i \in 1..Len(source) :
          Qualifies(source[i]) /\ source[i].html_url = list[k].url
     /\ \A j, k \in 1..Len(list) : j < k =>
          list[j].ageHours <= list[k].ageHours /\ list[j].url # list[k].url
     /\ \A i \in 1..Len(source) :
          (Qualifies(source[i]) /\ ~Listed(list, source[i])) =>
            \A k \in 1..Len(list) : AgeAtLeast(source[i].created_at, list[k].ageHours)

\* C15: with N qualifying items, prsNeedingReview and prsReadyToMerge hold
\* min(N, WorklistLimit) entries and issuesPendingTriage min(N, TriageLimit),
\* in non-decreasing order of ageHours, and no omitted qualifying item has a
\* smaller ageHours than an included one.
C15_WorklistsSortedAndCapped ==
  /\ ReviewMetricsDone =>
       /\ IsWorklist(result.reviewMetrics.prsNeedingReview, WorklistLimit,
                     allPullRequests, ShouldNeedReview)
       /\ IsWorklist(result.reviewMetrics.prsReadyToMerge, WorklistLimit,
                     allPullRequests, ShouldBeReady)
  /\ IssueMetricsDone =>
       IsWorklist(result.issueMetrics.issuesPendingTriage, TriageLimit,
                  allIssues, ShouldTriage)

C15_Witness ==
  /\ ReviewMetricsDone
  /\ Len(allPullRequests) = WorklistLimit + 1
  /\ \A i \in 1..Len(allPullRequests) : ShouldNeedReview(allPullRequests[i])
  /\ \A i \in 2..Len(allPullRequests) :
       allPullRequests[i].created_at > allPullRequests[1].created_at
  /\ Len(result.reviewMetrics.prsNeedingReview) = WorklistLimit
  /\ ~Listed(result.reviewMetrics.prsNeedingReview, allPullRequests[1])
  /\ result.reviewMetrics.prsNeedingReview[1].ageHours
       < result.reviewMetrics.prsNeedingReview[WorklistLimit].ageHours

\* The reviews the aggregation counted, in the order it met them.
Counted == countedReviews(allPullRequests, allReviews, repoMap)

ReviewsBy(login) == {i \in 1..Len(Counted) : Counted[i].review.user.login = login}

FirstSeen(login) == CHOOSE i \in ReviewsBy(login) : \A j \in ReviewsBy(login) : i <= j

\* C16: topReviewers lists at most TopReviewersLimit reviewers in
\* non-increasing order of review count, reviewers with equal counts in the
\* order in which their first review was met; each entry carries the number
\* of counted reviews of its login and the avatar of the first of them; no
\* omitted reviewer has a larger count than a listed one.
C16_TopReviewers ==
  ReviewMetricsDone =>
    LET top == result.reviewMetrics.topReviewers
        listed == {top[k].username : k \in 1..Len(top)}
        reviewers == {Counted[i].review.user.login : i \in 1..Len(Counted)}
    IN /\ Len(top) = Min(Cardinality(reviewers), TopReviewersLimit)
       /\ \A k \in 1..Len(top) :
            /\ top[k].username \in reviewers
            /\ top[k].reviewCount = Cardinality(ReviewsBy(top[k].username))
            /\ top[k].avatarUrl = Counted[FirstSeen(top[k].username)].review.user.avatar_url
       /\ \A j, k \in 1..Len(top) : j < k =>
            /\ top[j].username # top[k].username
            /\ top[j].reviewCount >= top[k].reviewCount
            /\ top[j].reviewCount = top[k].reviewCount =>
                 FirstSeen(top[j].username) < FirstSeen(top[k].username)
       /\ \A login \in reviewers \ listed : \A k \in 1..Len(top) :
            Cardinality(ReviewsBy(login)) <= top[k].reviewCount

\* The reviews held in the review map: (entry, position) pairs.
Held == {p \in (1..Len(allReviews)) \X (1..MaxReviews) :
           p[2] <= Len(allReviews[p[1]].value)}

HeldResolved ==
  {p \in Held : \E i \in 1..Len(allPullRequests) :
     /\ allPullRequests[i].number = allReviews[p[1]].key[3]
     /\ HasKey(repoMap, allReviews[p[1]].key)}

HeldIn(state) == {p \in HeldResolved : allReviews[p[1]].value[p[2]].state = state}

\* C17: totalReviews counts every review of every resolved pull request,
\* DISMISSED ones included; approved, changesRequested and commented count
\* the reviews in those states only, so that their sum is totalReviews minus
\* the number of DISMISSED reviews counted.
C17_TotalAndBuckets ==
  ReviewMetricsDone =>
    LET m == result.reviewMetrics
        d == m.reviewStateDistribution
    IN /\ m.totalReviews = Cardinality(HeldResolved)
       /\ d.approved = Cardinality(HeldIn("APPROVED"))
       /\ d.changesRequested = Cardinality(HeldIn("CHANGES_REQUESTED"))
       /\ d.commented = Cardinality(HeldIn("COMMENTED"))
       /\ d.approved + d.changesRequested + d.commented
            = m.totalReviews - Cardinality(HeldIn("DISMISSED"))

C17_Witness ==
  /\ ReviewMetricsDone
  /\ result.reviewMetrics.totalReviews = 4
  /\ Cardinality(HeldIn("DISMISSED")) = 2
  /\ result.reviewMetrics.reviewStateDistribution.commented = 1
  /\ result.reviewMetrics.reviewStateDistribution.changesRequested = 1

\* The pull request a held review belongs to: the one with the number of its
\* key, fetched from the repository of its key.
OwnPull(p) ==
  LET key == allReviews[p[1]].key
  IN allPullRequests[CHOOSE i \in 1..Len(allPullRequests) :
       /\ allPullRequests[i].number = key[3]
       /\ FetchedFrom(allPullRequests[i].html_url) = key[2]]

\* Submission time minus creation time of the pull request, in minutes.
Latency(p) == allReviews[p[1]].value[p[2]].submitted_at - OwnPull(p).created_at

SubmittedOn(day) ==
  {p \in HeldResolved :
     LET t == allReviews[p[1]].value[p[2]].submitted_at
     IN day * DayMinutes <= t /\ t < (day + 1) * DayMinutes}

RECURSIVE TotalLatency(_)
TotalLatency(S) ==
  IF S = {} THEN 0
  ELSE LET p == CHOOSE q \in S : TRUE IN Latency(p) + TotalLatency(S \ {p})

\* C18: dailyReviewData has exactly SeriesDays (14) entries, one per calendar
\* day of the trailing 14 days ending today, in ascending order; for each date
\* reviews is the number of counted reviews submitted on it and avgTimeHours
\* the mean of their latencies in hours, both 0 for a date without review.
C18_DailyReviewData ==
  ReviewMetricsDone =>
    LET series == result.reviewMetrics.dailyReviewData
    IN /\ Len(series) = 14
       /\ \A k \in 1..Len(series) :
            /\ series[k].date = now - 14 + k
            /\ series[k].reviews = Cardinality(SubmittedOn(series[k].date))
            /\ series[k].avgTimeHours.den > 0
            /\ series[k].avgTimeHours.num * HourMinutes * series[k].reviews
                 = TotalLatency(SubmittedOn(series[k].date)) * series[k].avgTimeHours.den
            /\ series[k].reviews = 0 => series[k].avgTimeHours.num = 0

\* The issues pending triage whose age is at least lo hours.
PendingAtLeast(lo) ==
  {i \in 1..Len(allIssues) :
     /\ ShouldTriage(allIssues[i])
     /\ lo * HourMinutes <= clock - allIssues[i].created_at}

\* The issues pending triage whose age is at least lo and less than hi hours.
PendingAges(lo, hi) == PendingAtLeast(lo) \ PendingAtLeast(hi)

\* C19: each issue pending triage is counted in exactly one age bucket:
\* age < 24h in lessThan24h, 24h <= age < 7*24h in oneToSevenDays,
\* 7*24h <= age < 30*24h in sevenToThirtyDays, age >= 30*24h in
\* moreThanThirtyDays.
C19_AgeBuckets ==
  IssueMetricsDone =>
    LET d == result.issueMetrics.ageDistribution
    IN /\ d.lessThan24h = Cardinality(PendingAges(0, 24))
       /\ d.oneToSevenDays = Cardinality(PendingAges(24, 7 * 24))
       /\ d.sevenToThirtyDays = Cardinality(PendingAges(7 * 24, 30 * 24))
       /\ d.moreThanThirtyDays = Cardinality(PendingAtLeast(30 * 24))
       /\ d.lessThan24h + d.oneToSevenDays + d.sevenToThirtyDays + d.moreThanThirtyDays
            = Cardinality({i \in 1..Len(allIssues) : ShouldTriage(allIssues[i])})

C19_Witness ==
  /\ IssueMetricsDone
  /\ Len(allIssues) = 2
  /\ clock - allIssues[1].created_at = 24 * HourMinutes
  /\ clock - allIssues[2].created_at = 30 * 24 * HourMinutes
  /\ result.issueMetrics.ageDistribution.oneToSevenDays = 1
  /\ result.issueMetrics.ageDistribution.moreThanThirtyDays = 1

LabelNames(issue) == [k \in 1..Len(issue.labels) |-> issue.labels[k].name]

\* C20: an issue is counted as pending triage exactly when it is open and has
\* no label whose name is, ignoring case, one of the seven recognized names:
\* an open issue labeled ["wontfix"] is, one labeled ["bug", "wontfix"] is
\* not, a closed issue never is.
C20_PendingTriage ==
  IssueMetricsDone =>
    LET m == result.issueMetrics
    IN /\ m.pendingTriage = Cardinality({i \in 1..Len(allIssues) : ShouldTriage(allIssues[i])})
       /\ \A i \in 1..Len(allIssues) :
            /\ Listed(m.issuesPendingTriage, allIssues[i]) => ShouldTriage(allIssues[i])
            /\ ShouldTriage(allIssues[i]) =>
                 Listed(m.issuesPendingTriage, allIssues[i])
                 \/ Len(m.issuesPendingTriage) = TriageLimit
       /\ (Len(allIssues) = 1 /\ allIssues[1].state = "open"
           /\ LabelNames(allIssues[1]) = <<Wontfix.name>>) => m.pendingTriage = 1
       /\ (Len(allIssues) = 1 /\ LabelNames(allIssues[1]) = <<Bug.name, Wontfix.name>>) =>
            m.pendingTriage = 0
       /\ (\A i \in 1..Len(allIssues) : allIssues[i].state = "closed") => m.pendingTriage = 0

C20_Witness ==
  /\ IssueMetricsDone
  /\ Len(allIssues) = 2
  /\ allIssues[1].state = "open"
  /\ LabelNames(allIssues[1]) = <<BugCapital.name>>
  /\ allIssues[2].state = "open"
  /\ LabelNames(allIssues[2]) = <<Wontfix.name>>
  /\ result.issueMetrics.pendingTriage = 1
  /\ Listed(result.issueMetrics.issuesPendingTriage, allIssues[2])

(***************************************************************************)
(* C30: in the issue metrics the four age buckets sum to pendingTriage,    *)
(* pendingTriage is at least the length of the issuesPendingTriage         *)
(* worklist, and pendingTriage <= openIssues <= totalIssues.               *)
(***************************************************************************)
BucketSum(m) ==
  m.ageDistribution["lessThan24h"] + m.ageDistribution["oneToSevenDays"]
  + m.ageDistribution["sevenToThirtyDays"] + m.ageDistribution["moreThanThirtyDays"]

C30_CountsAgree ==
  IssueMetricsDone =>
    LET m == result.issueMetrics
    IN /\ BucketSum(m) = m.pendingTriage
       /\ m.pendingTriage >= Len(m.issuesPendingTriage)
       /\ m.pendingTriage <= m.openIssues
       /\ m.openIssues <= m.totalIssues

\* More pending issues than the worklist holds.
C30_Witness ==
  /\ IssueMetricsDone
  /\ result.issueMetrics.pendingTriage > Len(result.issueMetrics.issuesPendingTriage)
  /\ Len(result.issueMetrics.issuesPendingTriage) = TriageLimit
  /\ BucketSum(result.issueMetrics) > TriageLimit

(***************************************************************************)
(* C23: a run over one repository with three pull requests (one merged,    *)
(* one open with an approval, one open without reviews) and two issues     *)
(* (one labeled "bug", one unlabeled and open) yields one entry in         *)
(* prsReadyToMerge, one in prsNeedingReview, pendingTriage = 1 and         *)
(* openIssues = the number of the two issues that are open.                *)
(***************************************************************************)
OwnReviews(pr) ==
  LET key == <<ORG, FetchedFrom(pr.html_url), pr.number>>
  IN IF HasKey(allReviews, key) THEN Get(allReviews, key) ELSE <<>>

IsMergedPull(pr) == pr.merged_at # null

IsApprovedPull(pr) ==
  /\ Eligible(pr)
  /\ HasState(OwnReviews(pr), "APPROVED")
  /\ ~HasState(OwnReviews(pr), "CHANGES_REQUESTED")

IsUnreviewedPull(pr) == Eligible(pr) /\ OwnReviews(pr) = <<>>

IsBugIssue(issue) == Len(issue.labels) = 1 /\ issue.labels[1].name = <<"b", "u", "g">>

IsUnlabeledOpen(issue) == issue.labels = <<>> /\ issue.state = "open"

Scenario ==
  /\ Len(visited) = 1
  /\ Len(allPullRequests) = 3
  /\ \E f \in Permutations(1..3) :
       /\ IsMergedPull(allPullRequests[f[1]])
       /\ IsApprovedPull(allPullRequests[f[2]])
       /\ IsUnreviewedPull(allPullRequests[f[3]])
  /\ Len(allIssues) = 2
  /\ \E g \in Permutations(1..2) :
       IsBugIssue(allIssues[g[1]]) /\ IsUnlabeledOpen(allIssues[g[2]])

C23_Scenario ==
  IssueMetricsDone /\ Scenario =>
    /\ Len(result.reviewMetrics.prsReadyToMerge) = 1
    /\ Len(result.reviewMetrics.prsNeedingReview) = 1
    /\ result.issueMetrics.pendingTriage = 1
    /\ result.issueMetrics.openIssues
         = Cardinality({i \in 1..2 : allIssues[i].state = "open"})

\* The scenario with the labeled issue closed.
C23_Witness ==
  /\ IssueMetricsDone
  /\ Scenario
  /\ result.issueMetrics.openIssues = 1
  /\ result.issueMetrics.totalIssues = 2

(***************************************************************************)
(* C26: step 1 resolves the review list of each composite key to the pull  *)
(* request with the key's repository and number: the latencies entering    *)
(* averageReviewTimeHours are measured from the creation time of pull      *)
(* request n fetched from repo for the key owner/repo#n, also when another *)
(* repository contributed a pull request numbered n earlier, and reviews   *)
(* whose pull request cannot be resolved are counted nowhere.              *)
(***************************************************************************)
HeldOwn ==
  {p \in Held : \E i \in 1..Len(allPullRequests) :
     /\ allPullRequests[i].number = allReviews[p[1]].key[3]
     /\ FetchedFrom(allPullRequests[i].html_url) = allReviews[p[1]].key[2]}

C26_OwnPullResolved ==
  ReviewMetricsDone =>
    /\ result.reviewMetrics.totalReviews = Cardinality(HeldOwn)
    /\ HeldOwn # {} =>
         result.reviewMetrics.averageReviewTimeHours
           = round(TotalLatency(HeldOwn) * 100, HourMinutes * Cardinality(HeldOwn))
    /\ HeldOwn = {} => result.reviewMetrics.averageReviewTimeHours = 0

(***************************************************************************)
(* C24: a review submitted before the creation time of its pull request    *)
(* enters the overall average and the average of its day with its negative *)
(* latency; it is neither clamped to zero nor dropped.                     *)
(***************************************************************************)
Early == {p \in HeldResolved : Latency(p) < 0}

C24_NegativeLatency ==
  ReviewMetricsDone /\ Early # {} =>
    LET m == result.reviewMetrics
    IN /\ m.averageReviewTimeHours
            = round(TotalLatency(HeldResolved) * 100,
                    HourMinutes * Cardinality(HeldResolved))
       /\ \A k \in 1..Len(m.dailyReviewData) :
            LET entry == m.dailyReviewData[k]
            IN SubmittedOn(entry.date) \cap Early # {} =>
                 /\ entry.reviews = Cardinality(SubmittedOn(entry.date))
                 /\ entry.avgTimeHours.num * HourMinutes * entry.reviews
                      = TotalLatency(SubmittedOn(entry.date)) * entry.avgTimeHours.den

(***************************************************************************)
(* C27: the review list step 3 uses to classify an open pull request and   *)
(* to count its approvals is the list stored under that pull request's own *)
(* key (empty if there is none), never the list of a same-numbered pull    *)
(* request of another repository, and a same-numbered issue key in the     *)
(* repository map has no influence on it.                                  *)
(***************************************************************************)
Approvals(rs) == Cardinality({k \in 1..Len(rs) : rs[k].state = "APPROVED"})

C27_OwnReviewList ==
  ReviewMetricsDone =>
    \A i \in 1..Len(allPullRequests) :
      LET pr == allPullRequests[i]
          own == OwnReviews(pr)
          needing == result.reviewMetrics.prsNeedingReview
          ready == result.reviewMetrics.prsReadyToMerge
      IN /\ Listed(needing, pr) => own = <<>> \/ AllCommented(own)
         /\ Eligible(pr) /\ (own = <<>> \/ AllCommented(own))
              => Listed(needing, pr) \/ Len(needing) = WorklistLimit
         /\ \A k \in 1..Len(ready) :
              ready[k].url = pr.html_url =>
                /\ HasState(own, "APPROVED")
                /\ ~HasState(own, "CHANGES_REQUESTED")
                /\ ready[k].approvals = Approvals(own)
         /\ Eligible(pr) /\ HasState(own, "APPROVED") /\ ~HasState(own, "CHANGES_REQUESTED")
              => Listed(ready, pr) \/ Len(ready) = WorklistLimit

(***************************************************************************)
(* C28: every paginated fetcher asks for pages 1, 2, 3, ... in increasing  *)
(* order, none skipped and none repeated: it asks for its current page     *)
(* only, starts at page 1 and goes on to the next page only after a full   *)
(* page, so that a list of N items is read with at most N div perPage + 1  *)
(* requests (floor(N/100)+1 in the code); and the whole run terminates,    *)
(* with exit status 0 or 1.                                                *)
(***************************************************************************)
PagedKinds == {"repos", "pulls", "issues"}

LoopOf(kind) ==
  CASE kind = "repos" -> "repos_loop"
    [] kind = "pulls" -> "pulls_loop"
    [] kind = "issues" -> "issues_loop"

PageDiscipline ==
  /\ Sends /\ Sent[1] \in PagedKinds =>
       /\ pc = LoopOf(Sent[1])
       /\ Sent[3] = page
       /\ Sent[2] = (IF Sent[1] = "repos" THEN ORG ELSE repo.name)
  /\ \A kind \in PagedKinds :
       /\ pc = LoopOf(kind) => Sends /\ Sent[1] = kind
       /\ pc' = LoopOf(kind) =>
            \/ pc = Cont(kind) /\ Len(json) = perPage /\ page' = page + 1
            \/ pc # Cont(kind) /\ page' = 1
       /\ pc = Cont(kind) /\ Len(json) < perPage => pc' # LoopOf(kind)

C28_Terminates ==
  /\ [][PageDiscipline]_vars
  /\ <>(pc = "done" /\ exitCode \in {0, 1})

\* A finished run over MainReposLimit repositories whose last request was for
\* a second page of issues.
C28_Witness ==
  /\ pc = "done"
  /\ exitCode = 0
  /\ Len(visited) = MainReposLimit
  /\ endpoint[1] = "issues"
  /\ endpoint[3] = 2

(***************************************************************************)
(* C29: reviews are requested only for the first RecentPRsLimit (30 in the *)
(* code) pull requests collected for the repository, in the order they     *)
(* were fetched and at most once each; a pull request collected after them *)
(* has no entry in the review map; every key of the review map is a key of *)
(* the repository map; and no entry of the review map is an empty list.    *)
(***************************************************************************)
\* The position of the i-th collected pull request among those of its repository.
RankInRepo(i) ==
  Cardinality({j \in 1..i :
    FetchedFrom(allPullRequests[j].html_url) = FetchedFrom(allPullRequests[i].html_url)})

PullKey(pr) == <<ORG, FetchedFrom(pr.html_url), pr.number>>

ReviewMapSound ==
  /\ \A k \in 1..Len(allReviews) :
       /\ allReviews[k].value # <<>>
       /\ HasKey(repoMap, allReviews[k].key)
       /\ \E i \in 1..Len(allPullRequests) :
            /\ PullKey(allPullRequests[i]) = allReviews[k].key
            /\ RankInRepo(i) <= RecentPRsLimit
  /\ \A i \in 1..Len(allPullRequests) :
       RankInRepo(i) > RecentPRsLimit => ~HasKey(allReviews, PullKey(allPullRequests[i]))

ReviewRequestsInOrder ==
  /\ Sends /\ Sent[1] = "reviews" =>
       /\ pc = "reviews_loop"
       /\ prIdx <= RecentPRsLimit
       /\ prIdx <= Len(pullRequests)
       /\ Sent = <<"reviews", repo.name, pullRequests[prIdx].number>>
       /\ \A j \in 1..(prIdx - 1) : pullRequests[j].number # pullRequests[prIdx].number
  /\ pc' = "reviews_loop" =>
       \/ pc = "pulls_page" /\ prIdx' = 1
       \/ pc \in {"reviews_filter", "reviews_catch"} /\ prIdx' = prIdx + 1
  /\ pc = "reviews_loop" /\ ~Sends => prIdx > Len(recentPRs) /\ pc' = "issues_loop"

C29_ReviewsOfRecentOnly ==
  [][ReviewRequestsInOrder /\ ReviewMapSound']_vars

\* A repository with more pull requests than reviews are requested for, the
\* review loop over and a review list stored for each of the first ones.
C29_Witness ==
  /\ pc = "issues_loop"
  /\ Len(pullRequests) > RecentPRsLimit
  /\ Len(allReviews) = RecentPRsLimit
  /\ Len(allPullRequests) = Len(pullRequests)

(***************************************************************************)
(* C25: whatever the order of the upstream list, getPullRequests returns   *)
(* no pull request of a bot and none updated before the cutoff; when the   *)
(* upstream list is ordered by update time, newest first, the early stop   *)
(* loses nothing: the result is exactly the upstream pull requests whose   *)
(* author is not a bot and whose updated_at >= cutoff, each once, in       *)
(* upstream order.                                                         *)
(***************************************************************************)
Descending(list) ==
  \A i, j \in 1..Len(list) : i < j => list[i].updated_at >= list[j].updated_at

Wanted(p) == ~isBotUser(p.user) /\ p.updated_at >= since

GetPullRequestsReturned == pc = "reviews_loop"

C25_EarlyStopLosesNothing ==
  GetPullRequestsReturned =>
    /\ \A i \in 1..Len(pullRequests) : Wanted(pullRequests[i])
    /\ Descending(upstream.pulls) => pullRequests = SelectSeq(upstream.pulls, Wanted)

\* A sorted list of two full pages that begins with a bot's pull request and
\* ends with one older than the cutoff.
C25_Witness ==
  /\ GetPullRequestsReturned
  /\ Descending(upstream.pulls)
  /\ Len(upstream.pulls) = MaxUpstream
  /\ isBotUser(upstream.pulls[1].user)
  /\ upstream.pulls[MaxUpstream].updated_at < since
  /\ Len(pullRequests) = MaxUpstream - 2
  /\ endpoint[3] = 2

(***************************************************************************)
(* C21: dailyTriageData has exactly 14 entries, one per calendar day of    *)
(* the trailing 14 days ending today, in ascending order; for each date    *)
(* triaged is the number of issues, in any state, updated on that date     *)
(* that carry at least one label, pending the number of issues created on  *)
(* that date that carry no label, and total = triaged + pending.           *)
(***************************************************************************)
OnDay(t, day) == day * DayMinutes <= t /\ t < (day + 1) * DayMinutes

UpdatedLabeled(day) ==
  {i \in 1..Len(allIssues) :
     OnDay(allIssues[i].updated_at, day) /\ Len(allIssues[i].labels) >= 1}

CreatedUnlabeled(day) ==
  {i \in 1..Len(allIssues) :
     OnDay(allIssues[i].created_at, day) /\ allIssues[i].labels = <<>>}

C21_DailyTriageData ==
  IssueMetricsDone =>
    LET series == result.issueMetrics.dailyTriageData
    IN /\ Len(series) = 14
       /\ \A k \in 1..Len(series) :
            /\ series[k].date = now - 14 + k
            /\ series[k].triaged = Cardinality(UpdatedLabeled(series[k].date))
            /\ series[k].pending = Cardinality(CreatedUnlabeled(series[k].date))
            /\ series[k].total = series[k].triaged + series[k].pending

(***************************************************************************)
(* C22: the aggregators depend on time only through one current-time value *)
(* shared by every window, age and daily-series computation (so that two   *)
(* runs on the same inputs with the same current time give the same        *)
(* output): every Date the two aggregators work with is the Date `now` of  *)
(* the first read, moved back by the days of its use.                      *)
(***************************************************************************)
SharedNow(dates, back) ==
  \A i \in 1..Len(dates) : dates[i] = daysAgoAt(reads[1][1], back[i])

C22_SingleNow ==
  SharedNow(reads[1], ReviewReads) /\ SharedNow(reads[2], IssueReads)

====
